---- MODULE Spec2Model ----
(***************************************************************************)
(* Model of the audio separation and noise removal services of the music   *)
(* editor backend (backend/services/audio_separator.py, noise_remover.py)  *)
(* and of the readiness probes that the HTTP routes expose.                *)
(*                                                                         *)
(* An array is modelled by its numpy shape (a tuple <<n>> for a 1-D array, *)
(* <<a, b>> for a 2-D one) and the list of the processing steps that have  *)
(* produced it (chans: the steps of its channels when they were processed  *)
(* one by one; side_gain_pct: the gain applied to its side component); the *)
(* sample values are modelled in the mid/side                              *)
(* specification SpecMS, where no resampling happens, and the powers of    *)
(* the spectrum in the specification SpecNR; overlapping requests and the  *)
(* files of the output directories are modelled in the specification       *)
(* SpecCC; the command loop of ipc_handler.py in SpecIPC, and the sessions *)
(* of the speech recognizer in SpecSR.  Exceptions are                     *)
(* modelled as outcomes with raised = TRUE that travel up the call chain   *)
(* until a handler of the code catches them.                               *)
(***************************************************************************)
EXTENDS Integers, Sequences, FiniteSets, TLC

VARIABLES model_loaded, separator, separator_hq,
          call, result, written, model_calls, path, propagated,
          wav, stems, buffer, analysis, requests, disk,
          stdin, stdout, loop, sessions, recog

vars == <<model_loaded, separator, separator_hq,
          call, result, written, model_calls, path, propagated,
          wav, stems, buffer, analysis, requests, disk,
          stdin, stdout, loop, sessions, recog>>

svc == <<model_loaded, separator, separator_hq>>
cvars == <<call, result, written, model_calls, path, propagated>>
nvars == <<wav, stems, buffer, analysis, requests, disk>>
ivars == <<stdin, stdout, loop, sessions, recog>>

(***************************************************************************)
(* Bounds of the model                                                     *)
(***************************************************************************)
MaxFrames == 4
MaxSamples == 3
MaxAmp == 1
MaxPower == 3
MaxRequests == 2
MaxBins == 3
MaxSeconds == 4
MaxLines == 3
MaxEofReads == 2
MaxSessions == 2
MaxCalls == 2

(***************************************************************************)
(* Program constants                                                       *)
(***************************************************************************)
HighRate == 44100
MediumRate == 22050
LowRate == 16000
HqModelRate == 44100
StdModelRate == 16000

Modes == {"enhanced", "clean", "fallback"}
Qualities == {"high", "medium", "low"}
NoiseTypes == {"auto", "white", "hiss", "hum"}
NoiseClasses == {"white", "hiss", "hum"}

(***************************************************************************)
(* Inputs of the environment                                               *)
(***************************************************************************)
ModeInputs == Modes \cup {"karaoke"}
QualityInputs == Qualities \cup {"ultra"}
NoiseTypeInputs == NoiseTypes \cup {"pink"}
\* strength in tenths: -0.5, 0.8 (the default), 1.5
StrengthInputs == {-5, 8, 15}
\* strength in tenths, within [0, 1]
StrengthGrid == {0, 2, 5, 8, 10}
NativeRates == {8000, 16000, 48000}
\* sr=None of librosa.load
NoRate == 0
DbValues == {0, 6}
LoadOutcomes == {"hq", "std", "import_error", "load_error"}

Unreadable == [readable |-> FALSE, channels |-> 0, frames |-> 0, sr |-> 0]

AudioFiles ==
    {Unreadable} \cup
    [readable : {TRUE}, channels : {1, 2}, frames : 0..MaxFrames, sr : NativeRates]

(***************************************************************************)
(* numpy arrays                                                            *)
(***************************************************************************)
Arr(shape, ops) == [shape |-> shape, ops |-> ops, chans |-> <<>>, side_gain_pct |-> 100]

NoArr == Arr(<<0>>, <<>>)

Ndim(a) == Len(a.shape)

\* len(a): the first dimension
FramesOf(a) == a.shape[1]

\* the result of an element-wise step: same shape, one more step
Op(a, tag) == [a EXCEPT !.ops = Append(@, tag)]

\* a.T of a 2-D array
Transpose(a) == [a EXCEPT !.shape = <<a.shape[2], a.shape[1]>>]

\* np.stack([w, w], axis=1) of a 1-D array
StackPair(a) == [a EXCEPT !.shape = <<a.shape[1], 2>>]

\* a[i] of a 2-D array
Row(a) == [a EXCEPT !.shape = <<a.shape[2]>>]

\* a[:, j] of a 2-D array
Column(a) == [a EXCEPT !.shape = <<a.shape[1]>>]

\* np.column_stack([l, r]) of two 1-D arrays
ColumnStack(l, r) == [l EXCEPT !.shape = <<l.shape[1], 2>>]

(***************************************************************************)
(* Outcomes of a call: a returned value or a raised exception, with the    *)
(* files written and the model invocations made on the way.                *)
(***************************************************************************)
Returned(v, w, c, p) ==
    [raised |-> FALSE, error |-> "", ret |-> v, writes |-> w, calls |-> c, path |-> p]

Raised(e, w, c, p) ==
    [raised |-> TRUE, error |-> e, ret |-> [success |-> FALSE], writes |-> w,
     calls |-> c, path |-> p]

Has(r, k) == k \in DOMAIN r

\* librosa.resample: n_samples = ceil(n * target / orig), identity when equal
Resampled(n, from, to) ==
    IF from = to THEN n ELSE (n * to + from - 1) \div from

\* librosa.load(path, sr=target_sr, mono=False); a file is readable when the
\* load returns: a mono file as a 1-D array, another as (channels, frames)
Load(file, target_sr) ==
    IF ~file.readable
    THEN [raised |-> TRUE, error |-> "load_failed", y |-> NoArr, sr |-> 0]
    ELSE LET sr == IF target_sr = NoRate THEN file.sr ELSE target_sr
             n == Resampled(file.frames, file.sr, sr)
         IN [raised |-> FALSE, error |-> "",
             y |-> Arr(IF file.channels = 1 THEN <<n>> ELSE <<file.channels, n>>, <<>>),
             sr |-> sr]

\* sf.write calls in order; the write number fail_at (if any) raises
WriteAll(ws, fail_at) ==
    IF fail_at \in 1..Len(ws)
    THEN [raised |-> TRUE, writes |-> SubSeq(ws, 1, fail_at - 1)]
    ELSE [raised |-> FALSE, writes |-> ws]

FileWrite(name, data, sr) == [file |-> name, data |-> data, sr |-> sr]

\* frames / sr, kept as a fraction
Duration(frames, sr) == [frames |-> frames, sr |-> sr]

\* scipy.signal.filtfilt needs more than padlen = 3 * max(len(a), len(b))
\* samples along the filtered axis: 9 for a second-order high-pass or notch
\* (three coefficients), 15 for butter(2, [low, high], btype='band') (five)
FiltfiltPadlen == 9
BandFiltfiltPadlen == 15

(***************************************************************************)
(* AudioSeparator                                                          *)
(***************************************************************************)
\* the fields after __init__ has run _init_separator
InitSeparator(outcome) ==
    IF outcome = "hq"
    THEN [model_loaded |-> TRUE, separator |-> "hq", separator_hq |-> TRUE]
    ELSE IF outcome = "std"
    THEN [model_loaded |-> TRUE, separator |-> "std", separator_hq |-> FALSE]
    ELSE [model_loaded |-> FALSE, separator |-> "none", separator_hq |-> FALSE]

\* a readiness that reports the model only
IsReadyModelOnly == model_loaded

\* is_ready of AudioSeparator
IsReady == model_loaded \/ TRUE

\* the enhancement sub-stages; a failing stage fails in both chains
Stages == {"spectral_subtraction", "vocal_boost", "dynamics", "noise_reduction",
           "vocal_suppression", "stereo_width"}

\* the bands that _intelligent_vocal_suppression attenuates, in its order:
\* the fundamental of the voice and two of its formants
SuppressionBands == <<"band_100_240", "band_500_800", "band_1200_1600">>

\* the places where a stage can raise: at its start, in
\* _smart_noise_reduction also at the gate that follows the filter, and in
\* _intelligent_vocal_suppression inside each of its band attenuations
FailPoints ==
    Stages \cup {"noise_gate"}
    \cup {SuppressionBands[i] : i \in 1..Len(SuppressionBands)}

\* the stems of an enhanced separation
StemNames == {"vocals", "accompaniment"}

\* self.separator.separate(waveform) of the external model: both stems have
\* the frames of the waveform handed in and one common layout
ModelSeparate(waveform, env) ==
    IF separator = "none"
    THEN [raised |-> TRUE, error |-> "no_separator", calls |-> 0,
          vocals |-> NoArr, accompaniment |-> NoArr]
    ELSE IF ~env.model_ok
    THEN [raised |-> TRUE, error |-> "model_failed", calls |-> 1,
          vocals |-> NoArr, accompaniment |-> NoArr]
    ELSE LET n == FramesOf(waveform)
             shape == IF env.model_layout = 2 THEN <<n, 2>> ELSE <<n>>
         IN [raised |-> FALSE, error |-> "", calls |-> 1,
             vocals |-> Arr(shape, <<"model_vocals">>),
             accompaniment |-> Arr(shape, <<"model_accompaniment">>)]

\* format conversion, then waveform / max_val * 0.98
MinimalPreprocessAudio(waveform) ==
    LET w == IF Ndim(waveform) = 1 THEN StackPair(waveform)
             ELSE IF Ndim(waveform) = 2 /\ waveform.shape[1] = 2 THEN Transpose(waveform)
             ELSE waveform
    IN Op(w, "peak_098")

\* format conversion, waveform / max_val * 0.95, DC removal
PreprocessAudio(waveform) ==
    LET w == IF Ndim(waveform) = 1 THEN StackPair(waveform)
             ELSE IF Ndim(waveform) = 2 /\ waveform.shape[1] = 2 THEN Transpose(waveform)
             ELSE waveform
    IN Op(w, "peak_095_dc")

\* audio * gain
NormalizeVolume(audio) == Op(audio, "normalize")

\* the rate of the clean model path when the loaded model variant is ignored
CleanTargetRateNoVariant(quality) ==
    IF quality = "high" THEN HighRate
    ELSE IF quality = "medium" THEN MediumRate
    ELSE LowRate

CleanTargetRate(quality) ==
    IF quality = "high" /\ separator_hq THEN HighRate
    ELSE IF quality = "medium" THEN MediumRate
    ELSE LowRate

AlgorithmicTargetRate(quality) ==
    IF quality = "high" THEN HighRate
    ELSE IF quality = "medium" THEN MediumRate
    ELSE LowRate

EnhancedTargetRate == IF separator_hq THEN HqModelRate ELSE StdModelRate

NoStems(e, c) ==
    [raised |-> TRUE, error |-> e, calls |-> c, vocals |-> NoArr,
     accompaniment |-> NoArr, sample_rate |-> 0, duration |-> Duration(0, 0)]

RunCleanSpleeterSeparation(file, quality, env) ==
    LET ld == Load(file, CleanTargetRate(quality)) IN
    IF ld.raised THEN NoStems(ld.error, 0)
    ELSE LET waveform == MinimalPreprocessAudio(ld.y)
             prediction == ModelSeparate(waveform, env)
         IN IF prediction.raised THEN NoStems(prediction.error, prediction.calls)
            ELSE LET vocals_clean == NormalizeVolume(prediction.vocals)
                     accompaniment_clean == NormalizeVolume(prediction.accompaniment)
                 IN [raised |-> FALSE, error |-> "", calls |-> prediction.calls,
                     vocals |-> vocals_clean, accompaniment |-> accompaniment_clean,
                     sample_rate |-> ld.sr,
                     duration |-> Duration(FramesOf(vocals_clean), ld.sr)]

\* mid, or mid * weight + (left + right) * (1 - weight) / 4
EnhanceCenterExtraction(mid, left, right) == Op(mid, "center")

\* side * 2 high-passed plus the low band of (left + right) / 2; side itself
\* when filtfilt raises
EnhanceSideExtraction(side, left, right) ==
    IF FramesOf(side) > FiltfiltPadlen THEN Op(side, "side_enhanced") ELSE side

CleanAlgorithmicSeparation(file, quality) ==
    LET ld == Load(file, AlgorithmicTargetRate(quality)) IN
    IF ld.raised THEN NoStems(ld.error, 0)
    ELSE IF Ndim(ld.y) = 1 THEN NoStems("mono_unseparable", 0)
    ELSE LET y == ld.y
             left == IF y.shape[1] = 2 THEN Row(y) ELSE Column(y)
             right == IF y.shape[1] = 2 THEN Row(y) ELSE Column(y)
             mid == Op(left, "mid")
             side == Op(left, "side")
             vocals == NormalizeVolume(IF quality = "high"
                                       THEN EnhanceCenterExtraction(mid, left, right)
                                       ELSE mid)
             accompaniment == NormalizeVolume(IF quality = "high"
                                              THEN EnhanceSideExtraction(side, left, right)
                                              ELSE side)
         IN [raised |-> FALSE, error |-> "", calls |-> 0,
             vocals |-> vocals, accompaniment |-> accompaniment,
             sample_rate |-> ld.sr,
             duration |-> Duration(FramesOf(vocals), ld.sr)]

\* the last axis, along which scipy's filtfilt filters by default
LastAxis(a) == a.shape[Len(a.shape)]

\* bins of scipy.fft.rfft along axis 0
RfftLen(n) == n \div 2 + 1

\* frames of scipy.fft.irfft(x, axis=0) when n is left out
IrfftLenDefault(bins, n) == 2 * (bins - 1)

\* frames of scipy.fft.irfft(x, n=n, axis=0)
IrfftLen(bins, n) == n

\* a shape with axes of length 1 put in front of it, n axes in all
PadShape(s, n) ==
    [i \in 1..n |-> IF i <= n - Len(s) THEN 1 ELSE s[i - (n - Len(s))]]

\* two shapes of the same number of axes, axis by axis
BroadcastPadded(ps, pt) ==
    [raised |-> \E i \in DOMAIN ps : ps[i] # pt[i] /\ ps[i] # 1 /\ pt[i] # 1,
     shape |-> [i \in DOMAIN ps |-> IF ps[i] = 1 THEN pt[i] ELSE ps[i]]]

\* the shape numpy gives the result of an element-wise operation on arrays
\* of the shapes s and t: the shapes are aligned at their last axis, an axis
\* of length 1 (or a missing one) stretches to the other's length, any other
\* difference raises
BroadcastShapes(s, t) ==
    BroadcastPadded(PadShape(s, IF Len(s) >= Len(t) THEN Len(s) ELSE Len(t)),
                    PadShape(t, IF Len(s) >= Len(t) THEN Len(s) ELSE Len(t)))

\* the shape of fft.rfft(a, axis=0)
RfftShape(a) == <<RfftLen(FramesOf(a))>> \o Tail(a.shape)

\* the enhanced spectrum, of the shape of the subtracted power spectra,
\* transformed back: irfft gives the frames of the target along axis 0
SubtractedSignal(target, power) ==
    IF power.raised THEN target
    ELSE Op([target EXCEPT !.shape = <<IrfftLen(power.shape[1], FramesOf(target))>>
                                          \o Tail(power.shape)],
            "spectral_subtraction")

\* rfft of an empty array raises; the power spectra of target and noise are
\* subtracted element-wise, which raises when their shapes do not broadcast;
\* the inverse transform gives the frames of the target along axis 0
GentleSpectralSubtraction(target, noise, fail) ==
    IF fail \/ FramesOf(target) = 0 \/ FramesOf(noise) = 0 THEN target
    ELSE SubtractedSignal(target,
                          BroadcastShapes(RfftShape(target), RfftShape(noise)))

AdaptiveVocalEnhancement(vocals, fail) ==
    IF fail THEN vocals ELSE Op(vocals, "vocal_boost")

GentleDynamicOptimization(audio, fail) ==
    IF fail THEN audio ELSE Op(audio, "dynamics")

\* _smart_noise_reduction: nothing is done unless the signal is noisy (the
\* 10th percentile of its magnitudes exceeds 0.001); the 40 Hz high-pass is
\* a filtfilt along the last axis, whose result is bound to audio, so that
\* a gate that raises after it returns the filtered signal
SmartNoiseReduction(audio, noisy, fail, gate_fail) ==
    IF fail \/ ~noisy \/ LastAxis(audio) <= FiltfiltPadlen THEN audio
    ELSE IF gate_fail THEN Op(audio, "highpass")
    ELSE Op(audio, "noise_reduction")

\* _selective_frequency_attenuation of one band: a filtfilt along the last
\* axis, which raises on a short signal; its own except clause returns the
\* audio it was given
SelectiveFrequencyAttenuation(audio, band, fail) ==
    IF fail \/ LastAxis(audio) <= BandFiltfiltPadlen THEN audio
    ELSE Op(audio, band)

\* three band attenuations one after the other, each going on from what
\* the band before it returned, attenuated or not; fail is a raise before
\* the first of them
IntelligentVocalSuppression(audio, fail, failed) ==
    IF fail THEN audio
    ELSE SelectiveFrequencyAttenuation(
             SelectiveFrequencyAttenuation(
                 SelectiveFrequencyAttenuation(
                     audio, SuppressionBands[1], SuppressionBands[1] \in failed),
                 SuppressionBands[2], SuppressionBands[2] \in failed),
             SuppressionBands[3], SuppressionBands[3] \in failed)

ConservativeStereoEnhancement(audio, fail) ==
    IF Ndim(audio) # 2 \/ audio.shape[2] # 2 THEN audio
    ELSE IF fail THEN audio
    ELSE Op(ColumnStack(Column(audio), Column(audio)), "stereo_width")

\* the enhancement steps that work on frequencies or on time frames:
\* _adaptive_vocal_enhancement (_detect_vocal_activity: 25 ms frames),
\* _smart_noise_reduction (40 Hz high-pass, whether its gate went through,
\* "noise_reduction", or raised after the filter, "highpass"),
\* _intelligent_vocal_suppression (_selective_frequency_attenuation: three
\* bands), _enhance_side_extraction (200 Hz split)
FrequencySteps ==
    {"vocal_boost", "noise_reduction", "highpass", "side_enhanced"}
    \cup {SuppressionBands[i] : i \in 1..Len(SuppressionBands)}

\* sr: int = 44100 in the signature of these steps, fs=44100 in the split
DefaultStepRate == 44100

\* the rate a step takes for its filters and frames when its chain calls it
\* on a waveform loaded at loaded_sr: the chains pass no rate, so that the
\* default of the signature applies
StepDesignRate(step, loaded_sr) ==
    IF step \in FrequencySteps THEN DefaultStepRate ELSE loaded_sr

\* a vocal chain that gates the noise first and shapes afterwards
EnhanceVocalsGateFirst(vocals, accompaniment, failed, quiet) ==
    LET s1 == SmartNoiseReduction(vocals, "vocals" \notin quiet,
                                  "noise_reduction" \in failed,
                                  "noise_gate" \in failed)
        s2 == GentleSpectralSubtraction(s1, accompaniment,
                                        "spectral_subtraction" \in failed)
        s3 == AdaptiveVocalEnhancement(s2, "vocal_boost" \in failed)
    IN GentleDynamicOptimization(s3, "dynamics" \in failed)

EnhanceVocals(vocals, accompaniment, failed, quiet) ==
    LET s1 == GentleSpectralSubtraction(vocals, accompaniment,
                                        "spectral_subtraction" \in failed)
        s2 == AdaptiveVocalEnhancement(s1, "vocal_boost" \in failed)
        s3 == GentleDynamicOptimization(s2, "dynamics" \in failed)
    IN SmartNoiseReduction(s3, "vocals" \notin quiet,
                           "noise_reduction" \in failed, "noise_gate" \in failed)

EnhanceAccompaniment(accompaniment, vocals, failed, quiet) ==
    LET s1 == GentleSpectralSubtraction(accompaniment, vocals,
                                        "spectral_subtraction" \in failed)
        s2 == IntelligentVocalSuppression(s1, "vocal_suppression" \in failed, failed)
        s3 == ConservativeStereoEnhancement(s2, "stereo_width" \in failed)
    IN SmartNoiseReduction(s3, "accompaniment" \notin quiet,
                           "noise_reduction" \in failed, "noise_gate" \in failed)

\* an enhanced separation that lets the failure of an enhancement stage
\* abort the run
RunEnhancedSpleeterSeparationStrict(file, env) ==
    LET ld == Load(file, EnhancedTargetRate) IN
    IF ld.raised THEN NoStems(ld.error, 0)
    ELSE LET waveform == PreprocessAudio(ld.y)
             prediction == ModelSeparate(waveform, env)
         IN IF prediction.raised THEN NoStems(prediction.error, prediction.calls)
            ELSE IF env.failed # {} THEN NoStems("stage_failed", prediction.calls)
            ELSE LET vocals_enhanced ==
                         EnhanceVocals(prediction.vocals, prediction.accompaniment, {},
                                       env.quiet)
                     accompaniment_enhanced ==
                         EnhanceAccompaniment(prediction.accompaniment,
                                              prediction.vocals, {}, env.quiet)
                 IN [raised |-> FALSE, error |-> "", calls |-> prediction.calls,
                     vocals |-> vocals_enhanced,
                     accompaniment |-> accompaniment_enhanced,
                     sample_rate |-> ld.sr,
                     duration |-> Duration(FramesOf(vocals_enhanced), ld.sr)]

RunEnhancedSpleeterSeparation(file, env) ==
    LET ld == Load(file, EnhancedTargetRate) IN
    IF ld.raised THEN NoStems(ld.error, 0)
    ELSE LET waveform == PreprocessAudio(ld.y)
             prediction == ModelSeparate(waveform, env)
         IN IF prediction.raised THEN NoStems(prediction.error, prediction.calls)
            ELSE LET vocals_enhanced ==
                         EnhanceVocals(prediction.vocals, prediction.accompaniment,
                                       env.failed, env.quiet)
                     accompaniment_enhanced ==
                         EnhanceAccompaniment(prediction.accompaniment,
                                              prediction.vocals, env.failed,
                                              env.quiet)
                 IN [raised |-> FALSE, error |-> "", calls |-> prediction.calls,
                     vocals |-> vocals_enhanced,
                     accompaniment |-> accompaniment_enhanced,
                     sample_rate |-> ld.sr,
                     duration |-> Duration(FramesOf(vocals_enhanced), ld.sr)]

\* the two sf.write calls of a separation path and what the path returns
SaveStems(r, vname, aname, sr, env, ret, p) ==
    LET w == WriteAll(<<FileWrite(vname, r.vocals, sr),
                        FileWrite(aname, r.accompaniment, sr)>>, env.write_fail)
    IN IF w.raised THEN Raised("write_failed", w.writes, r.calls, p)
       ELSE Returned(ret, w.writes, r.calls, p)

SeparateClean(file, quality, env) ==
    LET p == IF model_loaded THEN "clean_model" ELSE "clean_algorithmic"
        r == IF model_loaded THEN RunCleanSpleeterSeparation(file, quality, env)
             ELSE CleanAlgorithmicSeparation(file, quality)
    IN IF r.raised THEN Raised(r.error, <<>>, r.calls, p)
       ELSE SaveStems(r, "song_vocals_clean.wav", "song_accompaniment_clean.wav",
                      r.sample_rate, env,
                      [success |-> TRUE,
                       vocals_path |-> "uploads/separated/song_vocals_clean.wav",
                       accompaniment_path |->
                           "uploads/separated/song_accompaniment_clean.wav",
                       vocals_filename |-> "song_vocals_clean.wav",
                       accompaniment_filename |-> "song_accompaniment_clean.wav",
                       duration |-> r.duration,
                       method |-> IF model_loaded THEN "spleeter_clean"
                                  ELSE "algorithmic_clean",
                       quality |-> quality,
                       sample_rate |-> r.sample_rate], p)

SeparateWithSpleeterEnhanced(file, env) ==
    LET r == RunEnhancedSpleeterSeparation(file, env) IN
    IF r.raised THEN Raised(r.error, <<>>, r.calls, "enhanced")
    ELSE SaveStems(r, "song_vocals_hq.wav", "song_accompaniment_hq.wav",
                   r.sample_rate, env,
                   [success |-> TRUE,
                    vocals_path |-> "uploads/separated/song_vocals_hq.wav",
                    accompaniment_path |-> "uploads/separated/song_accompaniment_hq.wav",
                    vocals_filename |-> "song_vocals_hq.wav",
                    accompaniment_filename |-> "song_accompaniment_hq.wav",
                    duration |-> r.duration,
                    method |-> "spleeter_enhanced",
                    quality |-> "high",
                    sample_rate |-> r.sample_rate], "enhanced")

\* _separate_with_fallback after the load
FallbackOf(ld, env) ==
    IF ld.raised THEN Raised(ld.error, <<>>, 0, "fallback")
    ELSE IF Ndim(ld.y) = 1
    THEN Returned([success |-> FALSE, error |-> "mono_unseparable"], <<>>, 0, "fallback")
    ELSE LET left == Row(ld.y)
             right == Row(ld.y)
             r == [calls |-> 0, vocals |-> Op(left, "mid"),
                   accompaniment |-> Op(left, "side")]
         IN SaveStems(r, "song_vocals.wav", "song_accompaniment.wav", ld.sr, env,
                      [success |-> TRUE,
                       vocals_path |-> "uploads/separated/song_vocals.wav",
                       accompaniment_path |-> "uploads/separated/song_accompaniment.wav",
                       vocals_filename |-> "song_vocals.wav",
                       accompaniment_filename |-> "song_accompaniment.wav",
                       duration |-> Duration(FramesOf(left), ld.sr),
                       method |-> "center_channel_extraction",
                       warning |-> "simple_algorithm"], "fallback")

\* a fallback that duplicates a mono input into a stereo pair, as the
\* preprocessing of the model paths does, instead of rejecting it
SeparateWithFallbackMonoDup(file, env) ==
    LET ld == Load(file, NoRate) IN
    FallbackOf(IF ~ld.raised /\ Ndim(ld.y) = 1
               THEN [ld EXCEPT !.y = Transpose(StackPair(ld.y))]
               ELSE ld, env)

SeparateWithFallback(file, env) == FallbackOf(Load(file, NoRate), env)

\* a dispatch that sends every request that is neither clean nor fallback
\* to the model path, loaded or not
SeparateModelOnly(file, mode, quality, env) ==
    LET o == IF mode = "clean" THEN SeparateClean(file, quality, env)
             ELSE IF mode = "fallback" THEN SeparateWithFallback(file, env)
             ELSE SeparateWithSpleeterEnhanced(file, env)
    IN IF o.raised
       THEN Returned([success |-> FALSE, error |-> o.error], o.writes, o.calls, o.path)
       ELSE o

\* a dispatch without the except clause
SeparateNoExcept(file, mode, quality, env) ==
    IF mode = "clean" THEN SeparateClean(file, quality, env)
    ELSE IF mode = "fallback" \/ ~model_loaded THEN SeparateWithFallback(file, env)
    ELSE SeparateWithSpleeterEnhanced(file, env)

\* a dispatch that refuses the enhanced mode when no model is loaded
SeparateModelRequired(file, mode, quality, env) ==
    LET o == IF mode = "clean" THEN SeparateClean(file, quality, env)
             ELSE IF mode = "fallback" THEN SeparateWithFallback(file, env)
             ELSE IF ~model_loaded THEN Raised("model_unavailable", <<>>, 0, "none")
             ELSE SeparateWithSpleeterEnhanced(file, env)
    IN IF o.raised
       THEN Returned([success |-> FALSE, error |-> o.error], o.writes, o.calls, o.path)
       ELSE o

\* separate(audio_path, mode, quality): the dispatch and its except clause
Separate(file, mode, quality, env) ==
    LET o == IF mode = "clean" THEN SeparateClean(file, quality, env)
             ELSE IF mode = "fallback" \/ ~model_loaded
             THEN SeparateWithFallback(file, env)
             ELSE SeparateWithSpleeterEnhanced(file, env)
    IN IF o.raised
       THEN Returned([success |-> FALSE, error |-> o.error], o.writes, o.calls, o.path)
       ELSE o

(***************************************************************************)
(* The sample arithmetic of the fallback separation.  Samples are integers *)
(* (quantisation steps); a quotient is kept exact as a fraction.           *)
(***************************************************************************)
Frac(n, d) == [num |-> n, den |-> d]

FracAdd(p, q) == Frac(p.num * q.den + q.num * p.den, p.den * q.den)

FracSub(p, q) == Frac(p.num * q.den - q.num * p.den, p.den * q.den)

\* the fraction p equals the integer k
FracIs(p, k) == p.num = k * p.den

\* a side signal with the channels swapped: (right - left) / 2
FallbackMidSideSwapped(left, right) ==
    [vocals |-> [i \in 1..Len(left) |-> Frac(left[i] + right[i], 2)],
     accompaniment |-> [i \in 1..Len(left) |-> Frac(right[i] - left[i], 2)]]

\* vocals = (left + right) / 2, accompaniment = (left - right) / 2
FallbackMidSide(left, right) ==
    [vocals |-> [i \in 1..Len(left) |-> Frac(left[i] + right[i], 2)],
     accompaniment |-> [i \in 1..Len(left) |-> Frac(left[i] - right[i], 2)]]

(***************************************************************************)
(* NoiseRemover                                                            *)
(***************************************************************************)
\* a classification that tests the high band before the low band
DetectNoiseTypeHighFirst(low_freq_power, mid_freq_power, high_freq_power, ok) ==
    IF ~ok THEN "white"
    ELSE LET total_power == low_freq_power + mid_freq_power + high_freq_power
         IN IF total_power > 0
            THEN IF 10 * high_freq_power > 4 * total_power THEN "hiss"
                 ELSE IF 10 * low_freq_power > 4 * total_power THEN "hum"
                 ELSE "white"
            ELSE "white"

\* _detect_noise_type on the mean powers of the three bands of the buffer
\* (below 200 Hz, 200 Hz to 2 kHz, above); ok is false when the analysis
\* raises.  A ratio x / total > 0.4 is 10 * x > 4 * total.
DetectNoiseType(low_freq_power, mid_freq_power, high_freq_power, ok) ==
    IF ~ok THEN "white"
    ELSE LET total_power == low_freq_power + mid_freq_power + high_freq_power
         IN IF total_power > 0
            THEN IF 10 * low_freq_power > 4 * total_power THEN "hum"
                 ELSE IF 10 * high_freq_power > 4 * total_power THEN "hiss"
                 ELSE "white"
            ELSE "white"

Max(x, y) == IF x >= y THEN x ELSE y

RECURSIVE SumTo(_, _)
\* np.sum of the first n entries
SumTo(f, n) == IF n = 0 THEN 0 ELSE f[n] + SumTo(f, n - 1)

Min(x, y) == IF x <= y THEN x ELSE y

\* signal.stft(audio, sr, nperseg=2048, noverlap=1536): the window and the
\* hop between two frames, in samples
Nperseg == 2048
Hop == 512

\* stft.shape[1] for an audio of n >= nperseg samples: scipy extends the
\* signal by nperseg / 2 zeros at both ends and pads it to a whole number of
\* hops, which gives ceil(n / hop) + 1 frames
StftFrames(n) == (n + Hop - 1) \div Hop + 1

\* quiet_samples = min(int(0.5 * sr), stft.shape[1] // 4): a number of
\* frames of the stft, it indexes the second axis of stft
QuietFrames(sr, stft_frames) == Min(sr \div 2, stft_frames \div 4)

\* the samples of the audio that the first (or the last) q frames of the
\* stft cover: the frames are centred on 0, hop, 2 * hop, ...
EdgeSpan(q) == IF q = 0 THEN 0 ELSE (q - 1) * Hop + Nperseg \div 2

(***************************************************************************)
(* The power spectrum of _gentle_spectral_subtraction (AudioSeparator) on  *)
(* a 1-D stem: one power per rfft bin.  alpha is in tenths; the powers the *)
(* stage computes are kept exact in units of 1/(10 * window) of the input  *)
(* unit, window being that of _smooth_noise_spectrum (1/30 below 400       *)
(* bins), and after the Gaussian smoothing in units of                     *)
(* 1/(10 * window * WeightScale).  On a 2-D stem the code flattens the     *)
(* power spectrum before the convolution, which mixes the channels; that   *)
(* case is not described here.                                             *)
(***************************************************************************)
\* window_size = max(3, len(noise_power) // 100)
WindowSize(n) == Max(3, n \div 100)

\* window_size times _smooth_noise_spectrum(noise_power): np.convolve with
\* window_size ones / window_size, mode 'same': entry k of the result is
\* the sum of the window_size entries that end (window_size - 1) // 2 bins
\* after k, with zeros beyond the ends.  On fewer bins than the window (1
\* or 2) the convolution returns window_size values, the reshape raises and
\* the bare except returns noise_power itself.
SmoothNoiseSpectrum(noise_power) ==
    LET n == Len(noise_power)
        window_size == WindowSize(n)
        at(k) == IF k \in 1..n THEN noise_power[k] ELSE 0
    IN IF n < window_size THEN [k \in 1..n |-> window_size * noise_power[k]]
       ELSE [k \in 1..n |->
                SumTo([j \in 1..window_size |->
                          at(k + (window_size - 1) \div 2 - (j - 1))],
                      window_size)]

\* a subtraction that is floored at zero only
SubtractedPowerNoFloor(target_power, noise_power, alpha) ==
    LET noise_power_smoothed == SmoothNoiseSpectrum(noise_power)
        unit == 10 * WindowSize(Len(noise_power))
    IN [k \in 1..Len(target_power) |->
           Max(unit * target_power[k] - alpha * noise_power_smoothed[k], 0)]

\* 10 * window_size times np.maximum(target_power - alpha *
\* noise_power_smoothed, 0.3 * target_power)
SubtractedPower(target_power, noise_power, alpha) ==
    LET noise_power_smoothed == SmoothNoiseSpectrum(noise_power)
        unit == 10 * WindowSize(Len(noise_power))
    IN [k \in 1..Len(target_power) |->
           Max(unit * target_power[k] - alpha * noise_power_smoothed[k],
               3 * WindowSize(Len(noise_power)) * target_power[k])]

\* the normalised kernel of gaussian_filter1d(sigma=0.5): radius
\* int(4.0 * 0.5 + 0.5) = 2, weights exp(-2 x^2) / sum, times WeightScale
WeightScale == 100000
GaussianWeight(x) ==
    IF x = 0 THEN 78658
    ELSE IF x = 1 \/ x = 0 - 1 THEN 10645
    ELSE 26

RECURSIVE Reflect(_, _)
\* the index that mode='reflect' of scipy.ndimage reads beyond the ends:
\* (b a | a b c | c b)
Reflect(i, n) ==
    IF i < 1 THEN Reflect(1 - i, n)
    ELSE IF i > n THEN Reflect(2 * n + 1 - i, n)
    ELSE i

\* WeightScale times _smooth_spectrum(power_spectrum), 1-D case
SmoothSpectrum(power_spectrum) ==
    LET n == Len(power_spectrum)
    IN [k \in 1..n |->
           SumTo([j \in 1..5 |-> GaussianWeight(j - 3)
                                   * power_spectrum[Reflect(k + j - 3, n)]], 5)]

\* the remediation chain of _process_mono_noise_removal
NoiseChain(noise_type, detected) ==
    LET nt == IF noise_type = "auto" THEN detected ELSE noise_type
    IN IF nt = "white" THEN "white"
       ELSE IF nt = "hiss" THEN "hiss"
       ELSE IF nt = "hum" THEN "hum"
       ELSE "general"

SmoothAudio(audio) == Op(audio, "smooth")

\* np.where finds no bin in _adaptive_highcut_filter
NoCutoff == 0 - 1

\* the frequency of the first bin of signal.welch at which the cumulative
\* energy reaches (0.99 - 0.05 * strength) of the total, strength in tenths.
\* A silent signal reaches its threshold of 0 in the first bin, at 0 Hz.  A
\* threshold above the total (strength below -0.2) is reached by no bin of
\* a signal with energy.  Otherwise the bin depends on the signal: a dull
\* one (3 kHz), a bright one (9 kHz), and a broadband one, which reaches
\* the threshold only next to the Nyquist frequency.
WelchCutoffs(sr, strength) ==
    IF strength < 0 - 2 THEN {0, NoCutoff}
    ELSE {f \in {0, 3000, 9000} : 2 * f <= sr} \cup {sr \div 2}

\* the IIR filters a step of the chain runs a signal of the given number of
\* samples through at the rate sr and the strength (in tenths), each with
\* the scipy function that applies it: signal.filtfilt is a forward and a
\* backward pass, signal.sosfilt a single forward pass.  The spectral steps
\* (stft masks) run no IIR filter.
\*   _notch_filter: below the Nyquist frequency; Q = 30 * strength, and
\*     iirnotch raises on Q = 0; filtfilt raises on a signal of padlen
\*     samples or fewer.
\*   _low_frequency_gating: a high-pass at 20 * (1 + 2 * strength) Hz when
\*     that is below the Nyquist frequency; butter raises on a cutoff of 0
\*     or less.
\*   _adaptive_highcut_filter: when the threshold is reached, at
\*     welch_cutoff, the low-pass is at max(welch_cutoff, 8000) Hz and is
\*     applied only below 0.9 of the Nyquist frequency.
\*   _smooth_audio: a low-pass at 0.4 * sr, always below the Nyquist
\*     frequency.
IirPasses(step, sr, strength, samples, welch_cutoff) ==
    IF step = "hum"
    THEN {[stage |-> "notch", freq |-> f, apply |-> "filtfilt"] :
              f \in {g \in {50, 100, 150, 60, 120, 180} :
                         2 * g < sr /\ strength # 0 /\ samples > FiltfiltPadlen}}
         \cup {[stage |-> "low_frequency_gating", freq |-> 20 + 4 * strength,
                apply |-> "sosfilt"] :
                   x \in {y \in {0} : 20 + 4 * strength > 0
                                       /\ 2 * (20 + 4 * strength) < sr}}
    ELSE IF step = "hiss"
    THEN LET cutoff_freq == IF welch_cutoff > 8000 THEN welch_cutoff ELSE 8000
         IN IF welch_cutoff # NoCutoff /\ 20 * cutoff_freq < 9 * sr
            THEN {[stage |-> "adaptive_highcut", freq |-> cutoff_freq,
                   apply |-> "sosfilt"]}
            ELSE {}
    ELSE IF step = "smooth"
    THEN {[stage |-> "smooth", freq |-> (4 * sr) \div 10, apply |-> "sosfilt"]}
    ELSE {}

ProcessMonoNoiseRemoval(audio, noise_type, strength, detected, fail) ==
    IF fail THEN audio
    ELSE SmoothAudio(Op(audio, NoiseChain(noise_type, detected)))

\* np.column_stack of the two cleaned channels
StackChannels(l, r) ==
    [Arr(<<l.shape[1], 2>>, <<"stack">>) EXCEPT !.chans = <<l.ops, r.ops>>]

\* the pass on the shape of the array; side_gain_pct is gain = 1 - strength
\* in percent, which the pass applies when the channels are correlated
EnhanceStereoCoherence(audio, strength_pct) ==
    IF audio.shape[2] # 2 THEN audio
    ELSE [Op(audio, "coherence") EXCEPT !.side_gain_pct = 100 - strength_pct]

FracMul(p, q) == Frac(p.num * q.num, p.den * q.den)

FracEq(p, q) == p.num * q.den = q.num * p.den

\* np.corrcoef(left, right)[0, 1] > 0.5 on integer samples.  With n samples,
\* c = n * sum(l*r) - sum(l) * sum(r) is n^2 times the covariance and vl, vr
\* are n^2 times the variances; the coefficient is c / sqrt(vl * vr), and
\* nan (a channel without variance), which compares False.  A buffer of at
\* most one sample has correlation 0.  np.corrcoef divides in doubles: a
\* coefficient of exactly 1/2 comes out one unit in the last place above or
\* below 0.5, which rounds_up tells; any other coefficient of these samples
\* is further from 0.5 than the rounding reaches.
CorrelationAboveHalf(left, right, rounds_up) ==
    LET n == Len(left)
        c == n * SumTo([i \in 1..n |-> left[i] * right[i]], n)
                 - SumTo(left, n) * SumTo(right, n)
        vl == n * SumTo([i \in 1..n |-> left[i] * left[i]], n)
                  - SumTo(left, n) * SumTo(left, n)
        vr == n * SumTo([i \in 1..n |-> right[i] * right[i]], n)
                  - SumTo(right, n) * SumTo(right, n)
    IN /\ n > 1
       /\ vl > 0
       /\ vr > 0
       /\ c > 0
       /\ \/ 4 * c * c > vl * vr
          \/ 4 * c * c = vl * vr /\ rounds_up

\* the ways the division of np.corrcoef can round on these channels
CorrelationRoundings(left, right) ==
    IF CorrelationAboveHalf(left, right, TRUE)
       /\ ~CorrelationAboveHalf(left, right, FALSE)
    THEN BOOLEAN
    ELSE {FALSE}

\* the two channels after mid + side * gain, gain = 1 - strength
ShrinkSide(left, right, strength_pct) ==
    LET mid == [i \in 1..Len(left) |-> Frac(left[i] + right[i], 2)]
        side_left == [i \in 1..Len(left) |-> FracSub(Frac(left[i], 1), mid[i])]
        side_right == [i \in 1..Len(left) |-> FracSub(Frac(right[i], 1), mid[i])]
        gain == Frac(100 - strength_pct, 100)
    IN [left |-> [i \in 1..Len(left) |-> FracAdd(mid[i], FracMul(side_left[i], gain))],
        right |-> [i \in 1..Len(left) |-> FracAdd(mid[i], FracMul(side_right[i], gain))],
        applied |-> TRUE]

\* a pass that shrinks the side component whatever the correlation is
EnhanceStereoCoherenceSamplesAlways(left, right, strength_pct, rounds_up) ==
    ShrinkSide(left, right, strength_pct)

\* _enhance_stereo_coherence on the samples of the two columns
EnhanceStereoCoherenceSamples(left, right, strength_pct, rounds_up) ==
    IF CorrelationAboveHalf(left, right, rounds_up)
    THEN ShrinkSide(left, right, strength_pct)
    ELSE [left |-> [i \in 1..Len(left) |-> Frac(left[i], 1)],
          right |-> [i \in 1..Len(right) |-> Frac(right[i], 1)],
          applied |-> FALSE]

\* what follows the denoising of the channels in remove_noise: a 1-D buffer
\* is returned as it is, the channels of a 2-D buffer go through
\* _enhance_stereo_coherence with strength * 0.3 (strength in tenths, so
\* 3 * strength percent)
CoherencePass(channels, left, right, strength, rounds_up) ==
    IF channels = 1
    THEN [left |-> [i \in 1..Len(left) |-> Frac(left[i], 1)],
          right |-> <<>>,
          applied |-> FALSE]
    ELSE EnhanceStereoCoherenceSamples(left, right, 3 * strength, rounds_up)

ProcessStereoNoiseRemoval(audio, noise_type, strength, detected, fail) ==
    LET a == IF audio.shape[1] = 2 THEN Transpose(audio) ELSE audio IN
    IF "stereo" \in fail THEN a
    ELSE LET left_cleaned == ProcessMonoNoiseRemoval(Column(a), noise_type, strength,
                                                     detected[1], "left" \in fail)
             right_cleaned == ProcessMonoNoiseRemoval(Column(a), noise_type, strength,
                                                      detected[2], "right" \in fail)
             cleaned == StackChannels(left_cleaned, right_cleaned)
         \* strength * 0.3, with strength in tenths, is 3 * strength percent
         IN EnhanceStereoCoherence(cleaned, 3 * strength)

\* the body of remove_noise(audio_path, noise_type, strength)
RemoveNoiseBody(stem, file, noise_type, strength, env) ==
    LET ld == Load(file, NoRate) IN
    IF ld.raised THEN Raised(ld.error, <<>>, 0, "noise")
    ELSE LET cleaned == IF Ndim(ld.y) = 1
                        THEN ProcessMonoNoiseRemoval(ld.y, noise_type, strength,
                                                     env.detected[1], "left" \in env.fail)
                        ELSE ProcessStereoNoiseRemoval(ld.y, noise_type, strength,
                                                       env.detected, env.fail)
             w == WriteAll(<<FileWrite(stem, cleaned, ld.sr)>>,
                           IF env.write_ok THEN 0 ELSE 1)
         IN IF w.raised THEN Raised("write_failed", w.writes, 0, "noise")
            ELSE Returned([success |-> TRUE,
                           cleaned_path |-> stem,
                           noise_reduction_db |-> env.db,
                           sample_rate |-> ld.sr,
                           duration |-> Duration(FramesOf(cleaned), ld.sr)],
                          w.writes, 0, "noise")

\* remove_noise: the body and its except clause
RemoveNoise(stem, file, noise_type, strength, env) ==
    LET o == RemoveNoiseBody(stem, file, noise_type, strength, env)
    IN IF o.raised
       THEN Returned([success |-> FALSE, error |-> o.error], o.writes, o.calls, o.path)
       ELSE o

\* an artifact removal that gives up as soon as the vocals fail
RemoveSeparationArtifactsShortCircuit(vfile, afile, strength, venv, aenv) ==
    LET v == RemoveNoise("song_vocals_cleaned.wav", vfile, "auto", strength, venv)
        a == RemoveNoise("song_accompaniment_cleaned.wav", afile, "auto", strength, aenv)
    IN IF ~v.ret.success
       THEN Returned([success |-> FALSE, error |-> v.ret.error], v.writes, 0, "artifacts")
       ELSE IF a.ret.success
       THEN Returned([success |-> TRUE,
                      vocals_cleaned |-> v.ret,
                      accompaniment_cleaned |-> a.ret,
                      total_noise_reduction |->
                          Frac(v.ret.noise_reduction_db + a.ret.noise_reduction_db, 2)],
                     v.writes \o a.writes, 0, "artifacts")
       ELSE Returned([success |-> FALSE,
                      error |-> "partial_failure",
                      vocals_result |-> v.ret,
                      accompaniment_result |-> a.ret],
                     v.writes \o a.writes, 0, "artifacts")

\* remove_separation_artifacts(vocals_path, accompaniment_path, strength)
RemoveSeparationArtifacts(vfile, afile, strength, venv, aenv) ==
    LET v == RemoveNoise("song_vocals_cleaned.wav", vfile, "auto", strength, venv)
        a == RemoveNoise("song_accompaniment_cleaned.wav", afile, "auto", strength, aenv)
    IN IF v.ret.success /\ a.ret.success
       THEN Returned([success |-> TRUE,
                      vocals_cleaned |-> v.ret,
                      accompaniment_cleaned |-> a.ret,
                      total_noise_reduction |->
                          Frac(v.ret.noise_reduction_db + a.ret.noise_reduction_db, 2)],
                     v.writes \o a.writes, 0, "artifacts")
       ELSE Returned([success |-> FALSE,
                      error |-> "partial_failure",
                      vocals_result |-> v.ret,
                      accompaniment_result |-> a.ret],
                     v.writes \o a.writes, 0, "artifacts")

(***************************************************************************)
(* The state machine: one service object of each kind, one caller.  A call *)
(* runs to its end in one step; the caller then takes the result.          *)
(***************************************************************************)
Idle == [op |-> "none"]
NoResult == [none |-> TRUE]
NoWav == [left |-> <<>>, right |-> <<>>, loaded |-> FALSE]
NoStemData == [vocals |-> <<>>, accompaniment |-> <<>>, done |-> FALSE]
NoBuffer == [kind |-> "none"]
NoStdin == [lines |-> <<>>, closed |-> FALSE, eof_reads |-> 0]
NoCleanup == [session_id |-> 0, ret |-> FALSE, before |-> {}, after |-> {}]
NoRecog == [whisper |-> FALSE, issued |-> 0, client |-> {}, calls |-> <<>>,
            last |-> NoCleanup]

\* what can happen inside the enhancement chains: every set of stages that
\* raise at their start, on noisy stems; with no such stage, every set of
\* quiet stems with or without a gate that raises after the filter; and
\* every set of band attenuations that fail
EnhancementFaults ==
    {[failed |-> f, quiet |-> {}] : f \in SUBSET Stages}
    \cup {[failed |-> f, quiet |-> q] :
              f \in {{}, {"noise_gate"}}, q \in SUBSET StemNames}
    \cup {[failed |-> f, quiet |-> {}] :
              f \in SUBSET {SuppressionBands[i] : i \in 1..Len(SuppressionBands)}}

\* the faults the collaborators of a separation can produce: the model only
\* when one is loaded, the enhancement stages only on the enhanced path
SeparateEnvs(mode) ==
    {[model_ok |-> ok, model_layout |-> layout, write_fail |-> w,
      failed |-> e.failed, quiet |-> e.quiet] :
         ok \in IF model_loaded /\ mode # "fallback" THEN BOOLEAN ELSE {TRUE},
         layout \in IF model_loaded /\ mode # "fallback" THEN {1, 2} ELSE {2},
         w \in 0..2,
         e \in IF model_loaded /\ mode \notin {"clean", "fallback"}
               THEN EnhancementFaults
               ELSE {[failed |-> {}, quiet |-> {}]}}

FailSets(file) ==
    IF ~file.readable THEN {{}}
    ELSE IF file.channels = 1 THEN {{}, {"left"}}
    ELSE {{}, {"left"}, {"right"}, {"left", "right"}, {"stereo"}}

\* the band powers (low, mid, high) a channel can have
ChannelBands == {<<3, 1, 1>>, <<1, 1, 3>>, <<1, 1, 1>>}

\* the classes _detect_noise_type finds for the channels: it is called by
\* _process_mono_noise_removal, once for each channel of a stereo file
Detections(file, noise_type) ==
    IF ~file.readable \/ noise_type # "auto" THEN {<<"white", "white">>}
    ELSE IF file.channels = 1
    THEN {<<DetectNoiseType(b[1], b[2], b[3], TRUE), "white">> : b \in ChannelBands}
    ELSE {<<DetectNoiseType(l[1], l[2], l[3], TRUE),
            DetectNoiseType(r[1], r[2], r[3], TRUE)>> :
              l \in ChannelBands, r \in ChannelBands}

NoiseEnvs(file, noise_type, fails) ==
    {[write_ok |-> TRUE, detected |-> d, fail |-> f, db |-> db] :
         d \in Detections(file, noise_type), f \in fails,
         db \in IF file.readable THEN DbValues ELSE {0}}
    \cup {[write_ok |-> FALSE, detected |-> d, fail |-> f, db |-> 0] :
         d \in Detections(file, noise_type), f \in IF file.readable THEN fails ELSE {}}

\* the stems handed to remove_separation_artifacts
ArtifactFiles == {f \in AudioFiles : ~f.readable \/ f.frames = MaxFrames}

\* the branch separate() takes for a mode
SeparationPath(mode) ==
    IF mode = "clean"
    THEN IF model_loaded THEN "clean_model" ELSE "clean_algorithmic"
    ELSE IF mode = "fallback" \/ ~model_loaded THEN "fallback"
    ELSE "enhanced"

\* the paths that hand the separation to the thread pool
UsesExecutor(p) == p \in {"enhanced", "clean_model"}

\* the call c has returned (or raised) with the outcome o
Complete(c, o) ==
    /\ call' = c
    /\ result' = o.ret
    /\ written' = o.writes
    /\ model_calls' = o.calls
    /\ path' = o.path
    /\ propagated' = o.raised

Finish(c, o) ==
    /\ Complete(c, o)
    /\ UNCHANGED <<svc, nvars, ivars>>

Init ==
    /\ \E outcome \in LoadOutcomes :
           /\ model_loaded = InitSeparator(outcome).model_loaded
           /\ separator = InitSeparator(outcome).separator
           /\ separator_hq = InitSeparator(outcome).separator_hq
    /\ call = Idle
    /\ result = NoResult
    /\ written = <<>>
    /\ model_calls = 0
    /\ path = "none"
    /\ propagated = FALSE
    /\ wav = NoWav
    /\ stems = NoStemData
    /\ buffer = NoBuffer
    /\ analysis = <<>>
    /\ requests = <<>>
    /\ disk = {}
    /\ stdin = NoStdin
    /\ stdout = <<>>
    /\ loop = "none"
    /\ sessions = {}
    /\ recog = NoRecog

\* separate(audio_path, mode, quality) up to its first await that gives the
\* event loop away: the model paths await run_in_executor before anything
\* is loaded or written, and the coroutine is suspended (requests holds it);
\* the other paths run to their return.  One separation is suspended at a
\* time here, and only the readiness probes run meanwhile: separations and
\* noise removals that overlap are the subject of the concurrent
\* specification.
DoSeparate ==
    /\ call = Idle
    /\ requests = <<>>
    /\ \E file \in AudioFiles, mode \in ModeInputs, quality \in QualityInputs :
         IF UsesExecutor(SeparationPath(mode))
         THEN /\ requests' = <<[op |-> "separate", file |-> file, mode |-> mode,
                                quality |-> quality]>>
              /\ UNCHANGED <<svc, cvars, wav, stems, buffer, analysis, disk, ivars>>
         ELSE \E env \in SeparateEnvs(mode) :
                Finish([op |-> "separate", file |-> file, mode |-> mode,
                        quality |-> quality, env |-> env],
                       Separate(file, mode, quality, env))

\* the job of the thread pool has ended (load, model, post-processing, with
\* the faults of env) and the suspended separate() runs on to its return:
\* both writes and the result, or the except clauses
DoResumeSeparate ==
    /\ call = Idle
    /\ requests # <<>>
    /\ \E env \in SeparateEnvs(requests[1].mode) :
         Complete([op |-> "separate", file |-> requests[1].file,
                   mode |-> requests[1].mode, quality |-> requests[1].quality,
                   env |-> env],
                  Separate(requests[1].file, requests[1].mode,
                           requests[1].quality, env))
    /\ requests' = <<>>
    /\ UNCHANGED <<svc, wav, stems, buffer, analysis, disk, ivars>>

DoRemoveNoise ==
    /\ call = Idle
    /\ requests = <<>>
    /\ \E file \in AudioFiles, noise_type \in NoiseTypeInputs,
          strength \in StrengthInputs :
         \E env \in NoiseEnvs(file, noise_type, FailSets(file)) :
           Finish([op |-> "remove_noise", file |-> file, noise_type |-> noise_type,
                   strength |-> strength, env |-> env],
                  RemoveNoise("song_cleaned.wav", file, noise_type, strength, env))

DoRemoveSeparationArtifacts ==
    /\ call = Idle
    /\ requests = <<>>
    /\ \E vfile \in ArtifactFiles, afile \in ArtifactFiles,
          strength \in StrengthInputs :
         \E venv \in NoiseEnvs(vfile, "auto", {{}}),
            aenv \in NoiseEnvs(afile, "auto", {{}}) :
           Finish([op |-> "remove_separation_artifacts", vfile |-> vfile,
                   afile |-> afile, strength |-> strength, venv |-> venv,
                   aenv |-> aenv],
                  RemoveSeparationArtifacts(vfile, afile, strength, venv, aenv))

DoIsReady ==
    /\ call = Idle
    /\ Finish([op |-> "is_ready"],
              Returned([value |-> IsReady], <<>>, 0, "none"))

\* GET /health: the three readiness probes and their conjunction
HealthCheck(processor_ready, recognizer_ready) ==
    LET services == [audio_processor |-> processor_ready,
                     audio_separator |-> IsReady,
                     speech_recognizer |-> recognizer_ready]
    IN [status |-> IF \A k \in DOMAIN services : services[k]
                   THEN "healthy" ELSE "degraded",
        services |-> services]

DoHealthCheck ==
    /\ call = Idle
    /\ \E recognizer_ready \in BOOLEAN :
         Finish([op |-> "health_check", recognizer_ready |-> recognizer_ready],
                Returned(HealthCheck(TRUE, recognizer_ready), <<>>, 0, "none"))

\* the caller takes the result
TakeResult ==
    /\ call # Idle
    /\ call' = Idle
    /\ result' = NoResult
    /\ written' = <<>>
    /\ model_calls' = 0
    /\ path' = "none"
    /\ propagated' = FALSE
    /\ UNCHANGED <<svc, nvars, ivars>>

Next ==
    \/ DoSeparate
    \/ DoResumeSeparate
    \/ DoRemoveNoise
    \/ DoRemoveSeparationArtifacts
    \/ DoIsReady
    \/ DoHealthCheck
    \/ TakeResult

Spec == Init /\ [][Next]_vars

(***************************************************************************)
(* The mid/side specification: a loaded stereo waveform with its samples,  *)
(* separated by the fallback algorithm.                                    *)
(***************************************************************************)
Amps == (0 - 1)..MaxAmp

SampleSeqs == UNION {[1..n -> Amps] : n \in 0..MaxSamples}

InitMS ==
    /\ model_loaded = FALSE
    /\ separator = "none"
    /\ separator_hq = FALSE
    /\ call = Idle
    /\ result = NoResult
    /\ written = <<>>
    /\ model_calls = 0
    /\ path = "none"
    /\ propagated = FALSE
    /\ \E l \in SampleSeqs, r \in SampleSeqs :
           /\ Len(l) = Len(r)
           /\ wav = [left |-> l, right |-> r, loaded |-> TRUE]
    /\ stems = NoStemData
    /\ buffer = NoBuffer
    /\ analysis = <<>>
    /\ requests = <<>>
    /\ disk = {}
    /\ stdin = NoStdin
    /\ stdout = <<>>
    /\ loop = "none"
    /\ sessions = {}
    /\ recog = NoRecog

DoFallbackMidSide ==
    /\ wav.loaded
    /\ ~stems.done
    /\ stems' = [vocals |-> FallbackMidSide(wav.left, wav.right).vocals,
                 accompaniment |-> FallbackMidSide(wav.left, wav.right).accompaniment,
                 done |-> TRUE]
    /\ UNCHANGED <<svc, cvars, wav, buffer, analysis, requests, disk, ivars>>

\* the end of remove_noise(path, noise_type, strength) on the denoised
\* channels: of a mono buffer (the left samples) or of a stereo one
DoCoherencePass ==
    /\ wav.loaded
    /\ analysis = <<>>
    /\ \E channels \in {1, 2}, strength \in StrengthGrid,
          rounds_up \in CorrelationRoundings(wav.left, wav.right) :
           \E o \in {CoherencePass(channels, wav.left, wav.right, strength,
                                    rounds_up)} :
               analysis' = <<[channels |-> channels,
                              strength |-> strength,
                              left |-> o.left,
                              right |-> o.right,
                              applied |-> o.applied]>>
    /\ UNCHANGED <<svc, cvars, wav, stems, buffer, requests, disk, ivars>>

NextMS ==
    \/ DoFallbackMidSide
    \/ DoCoherencePass

SpecMS == InitMS /\ [][NextMS]_vars

(***************************************************************************)
(* The noise analysis specification: a buffer given by the powers of its   *)
(* three bands is classified, the noise estimate of a signal is located,   *)
(* or the power spectrum of a stem is subtracted from.  The energy that    *)
(* _calculate_noise_reduction measures, np.mean(cleaned ** 2) of the float *)
(* signal after istft and sosfilt, is not described here.                  *)
(***************************************************************************)
Powers == 0..MaxPower

\* alpha in tenths: 0.8 for the vocal chain, 0.5 for the accompaniment chain
AlphaInputs == {5, 8}

\* the power of the other stem in a bin: none, faint, loud
ResidualPowers == {0, 1, MaxPower}

\* the bins of the shortest spectrum that _smooth_noise_spectrum smooths
\* with a window wider than 3 (len // 100 = 4): a stem of 798 samples
LongBins == 400

InitNR ==
    /\ model_loaded = FALSE
    /\ separator = "none"
    /\ separator_hq = FALSE
    /\ call = Idle
    /\ result = NoResult
    /\ written = <<>>
    /\ model_calls = 0
    /\ path = "none"
    /\ propagated = FALSE
    /\ wav = NoWav
    /\ stems = NoStemData
    /\ requests = <<>>
    /\ disk = {}
    /\ stdin = NoStdin
    /\ stdout = <<>>
    /\ loop = "none"
    /\ sessions = {}
    /\ recog = NoRecog
    /\ \/ \E low \in Powers, mid \in Powers, high \in Powers, ok \in BOOLEAN :
             buffer = [kind |-> "bands", low |-> low, mid |-> mid, high |-> high,
                       ok |-> ok]
       \/ \E sr \in NativeRates, seconds \in 1..MaxSeconds :
             buffer = [kind |-> "signal", sr |-> sr, samples |-> seconds * sr]
       \/ \E n \in 1..MaxBins, alpha \in AlphaInputs :
             \E target \in [1..n -> Powers], noise \in [1..n -> ResidualPowers] :
                buffer = [kind |-> "spectrum", target_power |-> target,
                          noise_power |-> noise, alpha |-> alpha]
       \/ \E spike \in {1, LongBins \div 2, LongBins}, alpha \in AlphaInputs :
             buffer = [kind |-> "spectrum",
                       target_power |-> [k \in 1..LongBins |-> MaxPower],
                       noise_power |-> [k \in 1..LongBins |->
                                           IF k = spike THEN MaxPower ELSE 0],
                       alpha |-> alpha]
    /\ analysis = <<>>

\* _detect_noise_type(audio, sr): reads the buffer, returns the class
DoDetectNoiseType ==
    /\ buffer.kind = "bands"
    /\ Len(analysis) < 2
    /\ analysis' = Append(analysis,
                          [class |-> DetectNoiseType(buffer.low, buffer.mid,
                                                     buffer.high, buffer.ok),
                           seen |-> <<buffer.low, buffer.mid, buffer.high>>])
    /\ UNCHANGED <<svc, cvars, wav, stems, buffer, requests, disk, ivars>>

\* _gentle_spectral_subtraction(target, noise, alpha) up to the smoothed
\* power spectrum that its inverse transform starts from
DoGentleSpectralSubtraction ==
    /\ buffer.kind = "spectrum"
    /\ analysis = <<>>
    /\ LET enhanced_power == SubtractedPower(buffer.target_power, buffer.noise_power,
                                             buffer.alpha)
       IN analysis' = <<[floored |-> enhanced_power,
                         smoothed |-> SmoothSpectrum(enhanced_power)]>>
    /\ UNCHANGED <<svc, cvars, wav, stems, buffer, requests, disk, ivars>>

\* the noise estimate of _spectral_subtraction_denoise(audio, sr, strength):
\* the frames at the head and at the tail of the stft that it averages
DoEstimateNoisePower ==
    /\ buffer.kind = "signal"
    /\ analysis = <<>>
    /\ LET stft_frames == StftFrames(buffer.samples)
           quiet_samples == QuietFrames(buffer.sr, stft_frames)
       IN analysis' = <<[stft_frames |-> stft_frames,
                         quiet_samples |-> quiet_samples,
                         head |-> <<1, quiet_samples>>,
                         tail |-> <<stft_frames - quiet_samples + 1, stft_frames>>,
                         span |-> EdgeSpan(quiet_samples)]>>
    /\ UNCHANGED <<svc, cvars, wav, stems, buffer, requests, disk, ivars>>

NextNR ==
    \/ DoDetectNoiseType
    \/ DoEstimateNoisePower
    \/ DoGentleSpectralSubtraction

SpecNR == InitNR /\ [][NextNR]_vars

(***************************************************************************)
(* The concurrent specification: requests that overlap on one service      *)
(* object.  A coroutine runs on the event loop until it awaits; the model  *)
(* paths await a job of the default thread pool (run_in_executor(None,     *)
(* ...)), which loads the file, calls the model and post-processes in a    *)
(* worker thread; the other paths and remove_noise never await and run in  *)
(* one step.  The output directories are the files the requests share.     *)
(***************************************************************************)
Requests == 1..MaxRequests

\* workers of the default ThreadPoolExecutor: min(32, cpu_count + 4) >= 5
ExecutorWorkers == 5

NoPath == [dir |-> "none", stem |-> "none"]

\* paths a caller of the service can pass
DirectPaths == {[dir |-> "a", stem |-> "song"], [dir |-> "b", stem |-> "song"],
                [dir |-> "a", stem |-> "take"]}

\* tempfile.NamedTemporaryFile(delete=False, suffix=".wav") of the route: a
\* name no other request has
TmpStems == <<"tmp1", "tmp2", "tmp3">>

TmpPath(r) == [dir |-> "tmp", stem |-> TmpStems[r]]

NoRequest ==
    [pc |-> "idle", via |-> "none", op |-> "none", mode |-> "none",
     input |-> NoPath, overlaps |-> {}, success |-> FALSE, reported |-> {}]

\* self.output_dir / f"{Path(audio_path).stem}_<suffix>.wav"
OutputNames(p, input) ==
    LET suffixes == IF p = "enhanced" THEN {"vocals_hq", "accompaniment_hq"}
                    ELSE IF p \in {"clean_model", "clean_algorithmic"}
                    THEN {"vocals_clean", "accompaniment_clean"}
                    ELSE {"vocals", "accompaniment"}
    IN {[dir |-> "uploads/separated", stem |-> input.stem, suffix |-> x] :
            x \in suffixes}

\* the stem that a separation writes first
VocalsName(p, input) ==
    [dir |-> "uploads/separated", stem |-> input.stem,
     suffix |-> IF p = "enhanced" THEN "vocals_hq"
                ELSE IF p \in {"clean_model", "clean_algorithmic"} THEN "vocals_clean"
                ELSE "vocals"]

\* the files on disk after k of the two sf.write calls of a separation:
\* the vocals are written first
StemsWritten(p, input, k) ==
    IF k = 0 THEN {}
    ELSE IF k = 1 THEN {VocalsName(p, input)}
    ELSE OutputNames(p, input)

CleanedName(input) ==
    [dir |-> "uploads/cleaned", stem |-> input.stem, suffix |-> "cleaned"]

\* sf.write of the files that request r names, computed from its input
SfWrite(files, names, r, input) ==
    {e \in files : e.file \notin names}
        \cup {[file |-> n, from |-> input, by |-> r] : n \in names}

\* the requests whose call has begun and not returned
InFlight == {q \in Requests : requests[q].pc \in {"queued", "in_model", "computed",
                                                  "raised"}}

InitCC ==
    /\ \E outcome \in LoadOutcomes :
           /\ model_loaded = InitSeparator(outcome).model_loaded
           /\ separator = InitSeparator(outcome).separator
           /\ separator_hq = InitSeparator(outcome).separator_hq
    /\ call = Idle
    /\ result = NoResult
    /\ written = <<>>
    /\ model_calls = 0
    /\ path = "none"
    /\ propagated = FALSE
    /\ wav = NoWav
    /\ stems = NoStemData
    /\ buffer = NoBuffer
    /\ analysis = <<>>
    /\ requests = [r \in Requests |-> NoRequest]
    /\ disk = {}
    /\ stdin = NoStdin
    /\ stdout = <<>>
    /\ loop = "none"
    /\ sessions = {}
    /\ recog = NoRecog

\* the inputs of a call of separate(): POST /separate-audio passes its
\* temporary file and the default mode, another caller any path and mode
SeparateCalls(r) ==
    {[via |-> "route", input |-> TmpPath(r), mode |-> "enhanced"]}
        \cup [via : {"direct"}, input : DirectPaths, mode : Modes]

\* separate() up to the await of run_in_executor on a model path
SubmitSeparate(r) ==
    /\ requests[r].pc = "idle"
    /\ \E c \in SeparateCalls(r) :
         /\ UsesExecutor(SeparationPath(c.mode))
         /\ requests' = [requests EXCEPT ![r] =
                [pc |-> "queued", via |-> c.via, op |-> "separate", mode |-> c.mode,
                 input |-> c.input, overlaps |-> InFlight, success |-> FALSE,
                 reported |-> {}]]
    /\ UNCHANGED <<svc, cvars, wav, stems, buffer, analysis, disk, ivars>>

\* separate() on a path without a model: load, mid/side, the writes and the
\* return in one run of the coroutine; k is the number of sf.write calls
\* that succeed: none for an input that is mono or does not load or when
\* the first write raises, one when the second write raises, two on success
SeparateInline(r) ==
    /\ requests[r].pc = "idle"
    /\ \E c \in SeparateCalls(r), k \in 0..2 :
         LET p == SeparationPath(c.mode)
         IN /\ ~UsesExecutor(p)
            /\ requests' = [requests EXCEPT ![r] =
                   [pc |-> "done", via |-> c.via, op |-> "separate", mode |-> c.mode,
                    input |-> c.input, overlaps |-> InFlight, success |-> k = 2,
                    reported |-> IF k = 2 THEN OutputNames(p, c.input) ELSE {}]]
            /\ disk' = SfWrite(disk, StemsWritten(p, c.input, k), r, c.input)
    /\ UNCHANGED <<svc, cvars, wav, stems, buffer, analysis, ivars>>

\* remove_noise(): load, clean, write and return in one run of the coroutine
RemoveNoiseInline(r) ==
    /\ requests[r].pc = "idle"
    /\ \E input \in DirectPaths, ok \in BOOLEAN :
         /\ requests' = [requests EXCEPT ![r] =
                [pc |-> "done", via |-> "direct", op |-> "remove_noise",
                 mode |-> "none", input |-> input, overlaps |-> InFlight,
                 success |-> ok,
                 reported |-> IF ok THEN {CleanedName(input)} ELSE {}]]
         /\ disk' = IF ok THEN SfWrite(disk, {CleanedName(input)}, r, input)
                    ELSE disk
    /\ UNCHANGED <<svc, cvars, wav, stems, buffer, analysis, ivars>>

\* a worker thread has loaded and preprocessed the file and calls
\* self.separator.separate(waveform)
EnterModel(r) ==
    /\ requests[r].pc = "queued"
    /\ Cardinality({q \in Requests : requests[q].pc = "in_model"}) < ExecutorWorkers
    /\ requests' = [requests EXCEPT ![r].pc = "in_model"]
    /\ UNCHANGED <<svc, cvars, wav, stems, buffer, analysis, disk, ivars>>

\* the model returns; the worker post-processes the stems and ends
LeaveModel(r) ==
    /\ requests[r].pc = "in_model"
    /\ requests' = [requests EXCEPT ![r].pc = "computed"]
    /\ UNCHANGED <<svc, cvars, wav, stems, buffer, analysis, disk, ivars>>

\* the load or the model raises in the worker
WorkerRaises(r) ==
    /\ requests[r].pc \in {"queued", "in_model"}
    /\ requests' = [requests EXCEPT ![r].pc = "raised"]
    /\ UNCHANGED <<svc, cvars, wav, stems, buffer, analysis, disk, ivars>>

\* the coroutine resumes on the event loop: the exception of the worker
\* becomes a failed result; else the stems are written, k of the two
\* sf.write calls succeed, and the result is a success when both did
ResumeSeparate(r) ==
    /\ requests[r].pc \in {"computed", "raised"}
    /\ \E k \in IF requests[r].pc = "computed" THEN 0..2 ELSE {0} :
         LET p == SeparationPath(requests[r].mode)
         IN /\ requests' = [requests EXCEPT
                   ![r].pc = "done",
                   ![r].success = (k = 2),
                   ![r].reported = IF k = 2 THEN OutputNames(p, requests[r].input)
                                   ELSE {}]
            /\ disk' = SfWrite(disk, StemsWritten(p, requests[r].input, k), r,
                               requests[r].input)
    /\ UNCHANGED <<svc, cvars, wav, stems, buffer, analysis, ivars>>

NextCC ==
    \E r \in Requests :
        \/ SubmitSeparate(r)
        \/ SeparateInline(r)
        \/ RemoveNoiseInline(r)
        \/ EnterModel(r)
        \/ LeaveModel(r)
        \/ WorkerRaises(r)
        \/ ResumeSeparate(r)

SpecCC == InitCC /\ [][NextCC]_vars

(***************************************************************************)
(* The command loop of ipc_handler.py.  main() reads one line of standard  *)
(* input after the other, awaits the handler of the command and prints one *)
(* line of JSON; stdin.lines are the lines read so far, stdout the lines   *)
(* printed.  An identifier is a string, "null" for None.                   *)
(***************************************************************************)
\* the methods handle_<command> of IPCHandler; handle_command is one of them
IpcMethods == {"separate_audio", "audio_separate", "audio_recognize",
               "audio_analyze", "audio_convert", "voice_compose", "voice_clone",
               "voice_list_models", "check_environment", "health_check", "command"}

\* the commands the front end sends here, "reload" being none of the above
CommandInputs == {"check_environment", "health_check", "separate_audio",
                  "audio_separate", "audio_analyze", "reload", "command"}

\* the commands whose handler reaches a service that is not described here
\* (analyze_audio, the recognition with its session, synthesize_speech)
ServiceCommands == {"audio_recognize", "audio_analyze", "voice_compose"}

\* what such a service gives for an input it was handed: a result that
\* reports success, or a failure (returned by the service or raised)
ServiceReplies == {"success", "failure"}

\* the audio a separate_audio request carries in audio_data
IpcFiles == {Unreadable,
             [readable |-> TRUE, channels |-> 2, frames |-> MaxFrames, sr |-> 16000]}

\* params_is_dict: params is a JSON object, or is missing (data.get gives
\* {}); has_audio: params names the audio of the request (audio_data of
\* separate_audio, input_path of audio_separate), which is file
NoLine == [kind |-> "blank", id |-> "null", command |-> "", has_audio |-> FALSE,
           file |-> Unreadable, params_is_dict |-> TRUE]

\* the handlers that read params with params.get(...) outside a try block
\* of their own
ParamsReaders == {"audio_separate", "audio_recognize", "audio_analyze",
                  "audio_convert", "voice_compose", "voice_clone"}

\* a line of standard input: blank (empty after strip()), not JSON at all,
\* JSON that is not an object (a number, a list), or a request object: each
\* command without parameters, one request without an id, the two
\* separation commands and the analysis with their audio, and the two
\* separation commands with params that are no object (a number, a list)
Lines ==
    {NoLine}
    \cup {[NoLine EXCEPT !.kind = k] : k \in {"garbage", "scalar"}}
    \cup {[kind |-> "request", id |-> "7", command |-> c, has_audio |-> FALSE,
           file |-> Unreadable, params_is_dict |-> TRUE] : c \in CommandInputs}
    \cup {[kind |-> "request", id |-> "null", command |-> "check_environment",
           has_audio |-> FALSE, file |-> Unreadable, params_is_dict |-> TRUE]}
    \cup {[kind |-> "request", id |-> "7", command |-> c,
           has_audio |-> TRUE, file |-> f, params_is_dict |-> TRUE] :
              c \in {"separate_audio", "audio_separate", "audio_analyze"},
              f \in IpcFiles}
    \cup {[kind |-> "request", id |-> "7", command |-> c, has_audio |-> FALSE,
           file |-> Unreadable, params_is_dict |-> FALSE] :
              c \in {"separate_audio", "audio_separate"}}

\* dict.get(key): None when the key is absent
Get(r, k) == IF Has(r, k) THEN r[k] ELSE "None"

\* the faults of the separation behind a separate_audio or audio_separate
\* request that reaches its file, which runs in the enhanced mode: the
\* prediction of a loaded model can raise, each of the two sf.write calls
\* can raise, and of the faults of the enhancement stages of a loaded model
\* that answered the two extremes are drawn, no stage failing and every
\* stage failing
IpcSeparateEnvs(line) ==
    IF line.command \in {"separate_audio", "audio_separate"}
       /\ line.has_audio /\ line.file.readable
    THEN {e \in SeparateEnvs("enhanced") :
              /\ e.model_layout = 2
              /\ e.quiet = {}
              /\ e.failed \in IF e.model_ok THEN {{}, Stages} ELSE {{}}}
    ELSE {[model_ok |-> TRUE, model_layout |-> 2, write_fail |-> 0,
           failed |-> {}, quiet |-> {}]}

NoSeparation == [called |-> FALSE, file |-> Unreadable, env |-> <<>>,
                 out |-> Returned(NoResult, <<>>, 0, "none")]

\* await self.audio_separator.separate(...) with the default mode and
\* quality: handle_separate_audio reaches it when audio_data could be
\* decoded and written, handle_audio_separate always, with the path None
\* when params has no input_path: Path(None) raises inside separate(),
\* whose except clause returns a failure.  On params that are no object
\* params.get raises before either handler reaches separate()
IpcSeparation(line, env) ==
    IF line.kind = "request" /\ line.command \in {"separate_audio", "audio_separate"}
       /\ line.has_audio
    THEN [called |-> TRUE, file |-> line.file, env |-> env,
          out |-> Separate(line.file, "enhanced", "high", env)]
    ELSE IF line.kind = "request" /\ line.command = "audio_separate"
            /\ line.params_is_dict
    THEN [called |-> TRUE, file |-> Unreadable, env |-> env,
          out |-> Returned([success |-> FALSE, error |-> "path_is_none"], <<>>, 0,
                           SeparationPath("enhanced"))]
    ELSE NoSeparation

\* handle_separate_audio(params): params.get raises on params that are no
\* object and b64decode(None) when audio_data is missing, both inside the
\* try block of the handler; the response is built from the result of the
\* separation
HandleSeparateAudio(line, separation) ==
    IF ~line.params_is_dict \/ ~line.has_audio \/ separation.out.raised
    THEN [success |-> FALSE, error |-> "processing_failed"]
    ELSE IF separation.out.ret.success
    THEN [success |-> TRUE,
          vocals_path |-> Get(separation.out.ret, "vocals_path"),
          instrumental_path |-> Get(separation.out.ret, "instrumental_path"),
          vocals_name |-> Get(separation.out.ret, "vocals_name"),
          instrumental_name |-> Get(separation.out.ret, "instrumental_name")]
    ELSE [success |-> FALSE, error |-> Get(separation.out.ret, "error")]

\* handle_audio_separate(params): the result of separate() as it is
HandleAudioSeparate(separation) ==
    IF separation.out.raised THEN [success |-> FALSE, error |-> separation.out.error]
    ELSE separation.out.ret

\* handle_check_environment(params)
HandleCheckEnvironment ==
    [success |-> TRUE,
     audio_processor |-> TRUE,
     audio_separator |-> IsReady,
     speech_recognizer |-> recog.whisper,
     python_version |-> "sys.version",
     working_directory |-> "os.getcwd()"]

\* handle_health_check(params)
HandleHealthCheck ==
    LET services == [audio_processor |-> TRUE,
                     audio_separator |-> IsReady,
                     speech_recognizer |-> recog.whisper,
                     voice_composer |-> TRUE]
    IN [success |-> TRUE,
        status |-> IF \A k \in DOMAIN services : services[k]
                   THEN "healthy" ELSE "degraded",
        services |-> services]

\* handle_voice_list_models(params): the three voices of VoiceComposer
HandleVoiceListModels == [success |-> TRUE, count |-> 3]

\* handle_audio_recognize, handle_audio_analyze, handle_voice_compose:
\* without the input in params the service is handed None and fails
\* (librosa.load(None) raises in analyze_audio and in create_session,
\* text[:50] raises on None); an unreadable file fails as well
HandleService(line, reply) ==
    IF ~line.has_audio \/ ~line.file.readable \/ reply = "failure"
    THEN [success |-> FALSE, error |-> "service_failed"]
    ELSE [success |-> TRUE]

\* handle_command(command, params): the handler of the command when there
\* is one; an exception of a handler is caught here.  handle_audio_convert
\* calls convert_format with one argument too many and "command" finds
\* handle_command itself, which misses one: both raise a TypeError;
\* handle_voice_clone calls clone_voice, which VoiceComposer does not have.
\* On params that are no object the first params.get of a handler raises
\* an AttributeError
HandleCommand(line, separation, reply) ==
    IF line.command \notin IpcMethods
    THEN [success |-> FALSE, error |-> "unknown_command"]
    ELSE IF line.command = "separate_audio"
    THEN HandleSeparateAudio(line, separation)
    ELSE IF line.command \in ParamsReaders /\ ~line.params_is_dict
    THEN [success |-> FALSE, error |-> "AttributeError"]
    ELSE IF line.command = "audio_separate" THEN HandleAudioSeparate(separation)
    ELSE IF line.command = "check_environment" THEN HandleCheckEnvironment
    ELSE IF line.command = "health_check" THEN HandleHealthCheck
    ELSE IF line.command = "voice_list_models" THEN HandleVoiceListModels
    ELSE IF line.command \in ServiceCommands THEN HandleService(line, reply)
    ELSE IF line.command = "voice_clone"
    THEN [success |-> FALSE, error |-> "AttributeError"]
    ELSE [success |-> FALSE, error |-> "TypeError"]

\* one pass of the while loop of main() on a line that was read: continue on
\* a blank line; json.loads, whose JSONDecodeError is answered with the id
\* None; data.get on a value that is not a dict raises an AttributeError,
\* which only the handler around the loop catches
MainIteration(line, separation, reply) ==
    IF line.kind = "blank"
    THEN [printed |-> <<>>, raised |-> FALSE]
    ELSE IF line.kind = "garbage"
    THEN [printed |-> <<[id |-> "null",
                         result |-> [success |-> FALSE, error |-> "json_error"]]>>,
          raised |-> FALSE]
    ELSE IF line.kind = "scalar"
    THEN [printed |-> <<>>, raised |-> TRUE]
    ELSE [printed |-> <<[id |-> line.id,
                         result |-> HandleCommand(line, separation, reply)]>>,
          raised |-> FALSE]

\* main() up to its loop: IPCHandler() builds the services, the speech
\* recognizer with or without its whisper model
InitIPC ==
    /\ \E outcome \in LoadOutcomes :
           /\ model_loaded = InitSeparator(outcome).model_loaded
           /\ separator = InitSeparator(outcome).separator
           /\ separator_hq = InitSeparator(outcome).separator_hq
    /\ call = Idle
    /\ result = NoResult
    /\ written = <<>>
    /\ model_calls = 0
    /\ path = "none"
    /\ propagated = FALSE
    /\ wav = NoWav
    /\ stems = NoStemData
    /\ buffer = NoBuffer
    /\ analysis = <<>>
    /\ requests = <<>>
    /\ disk = {}
    /\ stdin = NoStdin
    /\ stdout = <<>>
    /\ loop = "reading"
    /\ sessions = {}
    /\ \E whisper \in BOOLEAN : recog = [NoRecog EXCEPT !.whisper = whisper]

\* readline() returns a line: one pass of the loop
ReadLine ==
    /\ loop = "reading"
    /\ ~stdin.closed
    /\ Len(stdin.lines) < MaxLines
    /\ \E line \in Lines :
       \E env \in IpcSeparateEnvs(line) :
         \E separation \in {IpcSeparation(line, env)},
            reply \in IF line.command \in ServiceCommands /\ line.has_audio
                         /\ line.file.readable
                      THEN ServiceReplies ELSE {"failure"} :
           \E o \in {MainIteration(line, separation, reply)} :
             /\ stdin' = [stdin EXCEPT !.lines = Append(@, line)]
             /\ stdout' = stdout \o o.printed
             /\ loop' = IF o.raised THEN "exited" ELSE "reading"
             /\ IF separation.called
                THEN /\ call' = [op |-> "separate", file |-> separation.file,
                                 mode |-> "enhanced", quality |-> "high",
                                 env |-> separation.env]
                     /\ result' = separation.out.ret
                     /\ written' = separation.out.writes
                     /\ model_calls' = separation.out.calls
                     /\ path' = separation.out.path
                     /\ propagated' = separation.out.raised
                ELSE UNCHANGED cvars
    /\ UNCHANGED <<svc, nvars, sessions, recog>>

\* the front end closes the pipe
CloseInput ==
    /\ loop = "reading"
    /\ ~stdin.closed
    /\ stdin' = [stdin EXCEPT !.closed = TRUE]
    /\ UNCHANGED <<svc, cvars, nvars, stdout, loop, sessions, recog>>

\* readline() at the end of the input returns '', which is a blank line:
\* the loop continues with the next readline(), for ever; eof_reads counts
\* these reads as far as MaxEofReads
ReadEof ==
    /\ loop = "reading"
    /\ stdin.closed
    /\ stdin' = [stdin EXCEPT !.eof_reads = Min(@ + 1, MaxEofReads)]
    /\ UNCHANGED <<svc, cvars, nvars, stdout, loop, sessions, recog>>

NextIPC ==
    \/ ReadLine
    \/ CloseInput
    \/ ReadEof

SpecIPC == InitIPC /\ [][NextIPC]_vars

\* the loop runs whenever it can: nothing but the process itself decides
\* when main() takes its next step
SpecIPCLive == SpecIPC /\ WF_vars(ReadLine \/ ReadEof)

(***************************************************************************)
(* The sessions of SpeechRecognizer.  sessions is the set of the keys of   *)
(* self.sessions; a session id is the number of its creation (uuid4 gives  *)
(* an id that was never given before).  recog.client holds the ids that    *)
(* callers got from create_session, recog.calls the calls of transcribe    *)
(* and extract_vocals_and_transcribe_with_session, which await the thread  *)
(* pool once whisper is loaded and the session exists, so that other calls *)
(* run in between; recog.last is the last call of cleanup_session.         *)
(***************************************************************************)
SessionIds == 1..MaxSessions

\* create_session(audio_path): _extract_audio_metadata raises for a file
\* that cannot be loaded, before the session is stored
CreateSession(active, issued, readable) ==
    IF ~readable
    THEN [raised |-> TRUE, session_id |-> 0, sessions |-> active, issued |-> issued + 1]
    ELSE [raised |-> FALSE, session_id |-> issued + 1,
          sessions |-> active \cup {issued + 1}, issued |-> issued + 1]

\* a cleanup that reports success and keeps the session
CleanupSessionKeeps(active, session_id) ==
    IF session_id \notin active
    THEN [ret |-> FALSE, sessions |-> active]
    ELSE [ret |-> TRUE, sessions |-> active]

\* cleanup_session(session_id)
CleanupSession(active, session_id) ==
    IF session_id \notin active
    THEN [ret |-> FALSE, sessions |-> active]
    ELSE [ret |-> TRUE, sessions |-> active \ {session_id}]

\* transcribe_with_session(session_id, ...) reaches its await
TranscriptionAwaits(active, session_id) == recog.whisper /\ session_id \in active

RecognitionCall(op, arg, temp, before, pc) ==
    [op |-> op, arg |-> arg, temp |-> temp, before |-> before,
     seen |-> before, after |-> before, pc |-> pc]

\* SpeechRecognizer(): whisper loaded or not, no session
InitSR ==
    /\ model_loaded = FALSE
    /\ separator = "none"
    /\ separator_hq = FALSE
    /\ call = Idle
    /\ result = NoResult
    /\ written = <<>>
    /\ model_calls = 0
    /\ path = "none"
    /\ propagated = FALSE
    /\ wav = NoWav
    /\ stems = NoStemData
    /\ buffer = NoBuffer
    /\ analysis = <<>>
    /\ requests = <<>>
    /\ disk = {}
    /\ stdin = NoStdin
    /\ stdout = <<>>
    /\ loop = "none"
    /\ sessions = {}
    /\ \E whisper \in BOOLEAN : recog = [NoRecog EXCEPT !.whisper = whisper]

\* a caller's create_session(audio_path)
DoCreateSession ==
    /\ recog.issued < MaxSessions
    /\ \E readable \in BOOLEAN :
         \E c \in {CreateSession(sessions, recog.issued, readable)} :
           /\ sessions' = c.sessions
           /\ recog' = [recog EXCEPT !.issued = c.issued,
                                     !.client = IF c.raised THEN @
                                                ELSE @ \cup {c.session_id}]
    /\ UNCHANGED <<svc, cvars, nvars, stdin, stdout, loop>>

\* a caller's cleanup_session(session_id), of any id
DoCleanupSession ==
    /\ \E session_id \in SessionIds :
         \E c \in {CleanupSession(sessions, session_id)} :
           /\ sessions' = c.sessions
           /\ recog' = [recog EXCEPT !.last = [session_id |-> session_id,
                                               ret |-> c.ret,
                                               before |-> sessions,
                                               after |-> c.sessions]]
    /\ UNCHANGED <<svc, cvars, nvars, stdin, stdout, loop>>

\* transcribe(audio_path) up to the await of transcribe_with_session, or to
\* its return when nothing is awaited: create_session, then (whisper not
\* loaded) the immediate return of transcribe_with_session and the cleanup
BeginTranscribe ==
    /\ Len(recog.calls) < MaxCalls
    /\ recog.issued < MaxSessions
    /\ \E readable \in BOOLEAN :
         \E c \in {CreateSession(sessions, recog.issued, readable)} :
           IF c.raised
           THEN /\ sessions' = c.sessions
                /\ recog' = [recog EXCEPT
                       !.issued = c.issued,
                       !.calls = Append(@, RecognitionCall("transcribe", 0, 0,
                                                           sessions, "done"))]
           ELSE IF TranscriptionAwaits(c.sessions, c.session_id)
           THEN /\ sessions' = c.sessions
                /\ recog' = [recog EXCEPT
                       !.issued = c.issued,
                       !.calls = Append(@, RecognitionCall("transcribe", 0,
                                               c.session_id, sessions, "awaiting"))]
           ELSE /\ sessions' = CleanupSession(c.sessions, c.session_id).sessions
                /\ recog' = [recog EXCEPT
                       !.issued = c.issued,
                       !.calls = Append(@,
                           [RecognitionCall("transcribe", 0, c.session_id,
                                            sessions, "done")
                            EXCEPT !.seen = c.sessions,
                                   !.after = CleanupSession(c.sessions,
                                                            c.session_id).sessions])]
    /\ UNCHANGED <<svc, cvars, nvars, stdin, stdout, loop>>

\* the thread pool has finished (with a result or an exception, which
\* transcribe_with_session catches): transcribe cleans its session up and
\* returns
ResumeTranscribe ==
    /\ \E k \in 1..Len(recog.calls) :
         /\ recog.calls[k].op = "transcribe"
         /\ recog.calls[k].pc = "awaiting"
         /\ \E c \in {CleanupSession(sessions, recog.calls[k].temp)} :
              /\ sessions' = c.sessions
              /\ recog' = [recog EXCEPT !.calls[k].pc = "done",
                                        !.calls[k].seen = sessions,
                                        !.calls[k].after = c.sessions]
    /\ UNCHANGED <<svc, cvars, nvars, stdin, stdout, loop>>

\* extract_vocals_and_transcribe_with_session(session_id) up to its await or
\* its return: an unknown session fails; without extracted vocals, or when
\* the session of the vocals cannot be created, the session itself is
\* transcribed; else the vocals get a session of their own
BeginExtract ==
    /\ Len(recog.calls) < MaxCalls
    /\ recog.issued < MaxSessions
    /\ \E session_id \in SessionIds, vocals \in BOOLEAN, readable \in BOOLEAN :
         IF session_id \notin sessions
         THEN /\ recog' = [recog EXCEPT
                     !.calls = Append(@, RecognitionCall("extract", session_id, 0,
                                                         sessions, "done"))]
              /\ UNCHANGED sessions
         ELSE \E c \in {IF vocals THEN CreateSession(sessions, recog.issued, readable)
                        ELSE [raised |-> TRUE, session_id |-> 0,
                              sessions |-> sessions, issued |-> recog.issued]} :
           IF c.raised
           THEN /\ UNCHANGED sessions
                /\ recog' = [recog EXCEPT
                       !.issued = c.issued,
                       !.calls = Append(@, RecognitionCall("extract", session_id, 0,
                                   sessions,
                                   IF TranscriptionAwaits(sessions, session_id)
                                   THEN "awaiting" ELSE "done"))]
           ELSE IF TranscriptionAwaits(c.sessions, c.session_id)
           THEN /\ sessions' = c.sessions
                /\ recog' = [recog EXCEPT
                       !.issued = c.issued,
                       !.calls = Append(@, RecognitionCall("extract", session_id,
                                               c.session_id, sessions, "awaiting"))]
           ELSE /\ sessions' = CleanupSession(c.sessions, c.session_id).sessions
                /\ recog' = [recog EXCEPT
                       !.issued = c.issued,
                       !.calls = Append(@,
                           [RecognitionCall("extract", session_id, c.session_id,
                                            sessions, "done")
                            EXCEPT !.seen = c.sessions,
                                   !.after = CleanupSession(c.sessions,
                                                            c.session_id).sessions])]
    /\ UNCHANGED <<svc, cvars, nvars, stdin, stdout, loop>>

\* the thread pool has finished: the finally clause cleans the session of
\* the vocals up, if there is one
ResumeExtract ==
    /\ \E k \in 1..Len(recog.calls) :
         /\ recog.calls[k].op = "extract"
         /\ recog.calls[k].pc = "awaiting"
         /\ \E c \in {IF recog.calls[k].temp = 0
                      THEN [ret |-> FALSE, sessions |-> sessions]
                      ELSE CleanupSession(sessions, recog.calls[k].temp)} :
              /\ sessions' = c.sessions
              /\ recog' = [recog EXCEPT !.calls[k].pc = "done",
                                        !.calls[k].seen = sessions,
                                        !.calls[k].after = c.sessions]
    /\ UNCHANGED <<svc, cvars, nvars, stdin, stdout, loop>>

NextSR ==
    \/ DoCreateSession
    \/ DoCleanupSession
    \/ BeginTranscribe
    \/ ResumeTranscribe
    \/ BeginExtract
    \/ ResumeExtract

SpecSR == InitSR /\ [][NextSR]_vars

(***************************************************************************)
(* Properties                                                              *)
(***************************************************************************)
IsSeparate == call.op = "separate"

StereoInput == call.file.readable /\ call.file.channels = 2

MonoInput == call.file.readable /\ call.file.channels = 1

\* the frames of the input as the separation path loaded it: the stems are
\* written at the rate the input was loaded at
LoadedFrames == Resampled(call.file.frames, call.file.sr, written[1].sr)

\* C1: with a mono input and no model loaded, separate() returns a failed
\* result with a reason, names no stem and writes no stem, in each of the
\* modes enhanced, clean and fallback and for every quality.
C1_MonoWithoutModelFails ==
    (IsSeparate /\ MonoInput /\ ~model_loaded /\ call.mode \in Modes)
        => /\ result.success = FALSE
           /\ Has(result, "error")
           /\ ~Has(result, "vocals_path")
           /\ ~Has(result, "accompaniment_path")
           /\ written = <<>>

C1_Witness ==
    /\ IsSeparate /\ MonoInput /\ ~model_loaded
    /\ call.mode = "enhanced"
    /\ call.file.frames > 0
    /\ result.success = FALSE
    /\ result.error = "mono_unseparable"

\* C2: with no model loaded, separate() on a stereo input succeeds in each
\* of the modes enhanced, clean and fallback with a mid/side method (no
\* write fault assumed), and the model's separate is invoked on no path.
C2_StereoWithoutModelSucceeds ==
    (IsSeparate /\ ~model_loaded)
        => /\ model_calls = 0
           /\ (StereoInput /\ call.mode \in Modes /\ call.env.write_fail = 0)
                 => /\ result.success = TRUE
                    /\ result.method \in {"center_channel_extraction",
                                          "algorithmic_clean"}
                    /\ Len(written) = 2

C2_Witness ==
    /\ IsSeparate /\ ~model_loaded /\ StereoInput
    /\ call.mode = "enhanced"
    /\ call.file.frames > 0
    /\ result.success = TRUE
    /\ Len(written) = 2
    /\ model_calls = 0

\* C3: separate(), remove_noise() and remove_separation_artifacts() never
\* let an exception reach the caller: each returns a record with a boolean
\* success, and a failed record carries an error reason.
C3_NoExceptionReachesCaller ==
    (call.op \in {"separate", "remove_noise", "remove_separation_artifacts"})
        => /\ ~propagated
           /\ Has(result, "success")
           /\ result.success \in BOOLEAN
           /\ (~result.success => Has(result, "error"))

C3_Witness ==
    /\ IsSeparate
    /\ ~call.file.readable
    /\ call.mode = "clean"
    /\ ~propagated
    /\ result.success = FALSE
    /\ result.error = "load_failed"

\* C4: in every successful separation of a stereo input, whatever the mode,
\* the quality and the enhancement stages that failed, both stems have the
\* frames of the loaded input and the same shape as each other.
C4_StemsKeepFramesAndLayout ==
    (IsSeparate /\ StereoInput /\ result.success = TRUE)
        => /\ Len(written) = 2
           /\ FramesOf(written[1].data) = LoadedFrames
           /\ FramesOf(written[2].data) = LoadedFrames
           /\ written[1].data.shape = written[2].data.shape
           /\ written[1].sr = written[2].sr

C4_Witness ==
    /\ IsSeparate /\ StereoInput /\ result.success = TRUE
    /\ path = "enhanced"
    /\ call.file.frames = 3
    /\ LoadedFrames = 3
    /\ call.env.failed = {"stereo_width", "dynamics"}
    /\ FramesOf(written[1].data) = 3
    /\ written[2].data.shape = <<3, 2>>
    /\ written[1].data.ops = <<"model_vocals", "spectral_subtraction", "vocal_boost">>

\* C5 (as claimed): separate() with a mode outside {enhanced, clean,
\* fallback} or a quality outside {high, medium, low} returns a failed
\* result and runs no separation path.
C5_UnknownEnumFailsFast ==
    (IsSeparate /\ (call.mode \notin Modes \/ call.quality \notin Qualities))
        => /\ result.success = FALSE
           /\ written = <<>>

\* C6 (as claimed): remove_noise() with a noise type outside {auto, white,
\* hiss, hum} or a strength outside [0, 1] returns a failed result and
\* writes no cleaned output.
C6_InvalidNoiseParameterFails ==
    (call.op = "remove_noise"
     /\ (call.noise_type \notin NoiseTypes \/ call.strength \notin 0..10))
        => /\ result.success = FALSE
           /\ written = <<>>

\* C7 (as claimed): when the enhanced mode is requested and no model is
\* loaded, separate() returns a failure and produces no stems.
C7_EnhancedWithoutModelAborts ==
    (IsSeparate /\ call.mode = "enhanced" /\ ~model_loaded)
        => /\ result.success = FALSE
           /\ written = <<>>

\* C7 (amended): when the enhanced mode is requested and no model is
\* loaded, separate() takes the fallback path without invoking the model: a
\* stereo input gives a successful result of the center channel extraction
\* with a warning (no write fault assumed), a mono input a failed result
\* with a reason.
C7_EnhancedWithoutModelFallsBack ==
    (IsSeparate /\ call.mode = "enhanced" /\ ~model_loaded)
        => /\ path = "fallback"
           /\ model_calls = 0
           /\ (StereoInput /\ call.env.write_fail = 0)
                 => /\ result.success = TRUE
                    /\ result.method = "center_channel_extraction"
                    /\ Has(result, "warning")
                    /\ Len(written) = 2
           /\ MonoInput
                 => /\ result.success = FALSE
                    /\ Has(result, "error")

C7_Witness ==
    /\ IsSeparate /\ call.mode = "enhanced" /\ ~model_loaded
    /\ StereoInput
    /\ call.file.frames = 2
    /\ result.success = TRUE
    /\ result.method = "center_channel_extraction"
    /\ written[1].data.ops = <<"mid">>

\* the rate the specification assigns to a quality
QualityRate(quality) ==
    IF quality = "high" THEN 44100
    ELSE IF quality = "medium" THEN 22050
    ELSE 16000

\* C8 (as claimed): the sample rate of every successful separation result
\* is that of the requested quality (high 44100, medium 22050, low 16000),
\* whatever the mode, the native rate and the model variant.
C8_RateFollowsQualityAlone ==
    (IsSeparate /\ result.success = TRUE /\ call.quality \in Qualities)
        => /\ Has(result, "sample_rate")
           /\ result.sample_rate = QualityRate(call.quality)

\* C8 (amended): the sample rate of a successful separation follows the
\* quality only on the clean path: medium gives 22050, low 16000 and high
\* 44100, except that high gives 16000 when a model is loaded without its
\* high-quality variant.  On the enhanced model path the rate is that of
\* the loaded model (44100 high-quality, 16000 standard) whatever the
\* quality; the fallback path writes the stems at the native rate of the
\* file and reports no sample rate.
C8_RateByPath ==
    (IsSeparate /\ result.success = TRUE /\ call.quality \in Qualities)
        => /\ (path = "clean_algorithmic")
                 => result.sample_rate = QualityRate(call.quality)
           /\ (path = "clean_model")
                 => result.sample_rate =
                        IF call.quality = "high" /\ separator = "std" THEN 16000
                        ELSE QualityRate(call.quality)
           /\ (path = "enhanced")
                 => result.sample_rate = IF separator = "hq" THEN 44100 ELSE 16000
           /\ (path = "fallback")
                 => /\ ~Has(result, "sample_rate")
                    /\ written[1].sr = call.file.sr
                    /\ written[2].sr = call.file.sr
           /\ path # "fallback"
                 => /\ written[1].sr = result.sample_rate
                    /\ written[2].sr = result.sample_rate

C8_Witness ==
    /\ IsSeparate /\ result.success = TRUE
    /\ call.quality = "high"
    /\ call.mode = "clean"
    /\ separator = "std"
    /\ call.file.sr = 48000
    /\ result.sample_rate = 16000

\* C9 (as claimed): is_ready() of the separator returns true exactly when
\* the model was loaded.
C9_ReadyIffModelLoaded ==
    /\ (call.op = "is_ready") => (result.value = model_loaded)
    /\ (call.op = "health_check")
          => (result.services.audio_separator = model_loaded)

\* C9 (amended): is_ready() of the separator returns true in every state,
\* whether the model was loaded or not, and the health check reports the
\* separator ready accordingly.
C9_AlwaysReady ==
    /\ (call.op = "is_ready") => (result.value = TRUE)
    /\ (call.op = "health_check") => (result.services.audio_separator = TRUE)

C9_Witness ==
    /\ call.op = "is_ready"
    /\ ~model_loaded
    /\ separator = "none"
    /\ result.value = TRUE

\* C10: for the fallback algorithm on a stereo input (L, R), at every sample
\* index vocals + accompaniment = L and vocals - accompaniment = R.
C10_MidSideInvertible ==
    stems.done
        => /\ Len(stems.vocals) = Len(wav.left)
           /\ Len(stems.accompaniment) = Len(wav.left)
           /\ \A i \in 1..Len(wav.left) :
                /\ FracIs(FracAdd(stems.vocals[i], stems.accompaniment[i]), wav.left[i])
                /\ FracIs(FracSub(stems.vocals[i], stems.accompaniment[i]), wav.right[i])

C10_Witness ==
    /\ stems.done
    /\ wav.left = <<1, 0>>
    /\ wav.right = <<0, 0 - 1>>
    /\ stems.vocals[1] = Frac(1, 2)
    /\ stems.accompaniment[2] = Frac(1, 2)

\* the method tags that name the external model
ModelMethods == {"spleeter_clean", "spleeter_enhanced"}

\* C11 (as claimed): every successful separation result of a file with
\* samples, in each of the modes enhanced, clean and fallback, carries a sample rate, a duration and
\* a method tag; the tag names a model-based method only if the model was
\* loaded and invoked, and the result of the mid/side fallback carries a
\* warning.
C11_ResultCarriesRateDurationMethod ==
    (IsSeparate /\ result.success = TRUE /\ call.mode \in Modes
     /\ call.quality \in Qualities /\ call.file.frames > 0)
        => /\ Has(result, "sample_rate")
           /\ Has(result, "duration")
           /\ Has(result, "method")
           /\ (result.method \in ModelMethods => (model_loaded /\ model_calls = 1))
           /\ (path = "fallback" => Has(result, "warning"))

\* the last step that produced the array is the volume normalization
NormalizedLast(a) == Len(a.ops) > 0 /\ a.ops[Len(a.ops)] = "normalize"

\* C12 (as claimed): in every successful separation of a file with samples,
\* in each of the modes enhanced, clean and fallback, each stem written has passed through the
\* per-stem volume normalization (the step that clamps its peak to 0.95) as
\* its last step.
C12_StemsNormalized ==
    (IsSeparate /\ result.success = TRUE /\ call.mode \in Modes
     /\ call.quality \in Qualities /\ call.file.frames > 0)
        => \A i \in 1..Len(written) : NormalizedLast(written[i].data)

\* a remove_noise sub-call succeeds when its file loads and its output is
\* written
SubCallOk(file, env) == file.readable /\ env.write_ok

\* C13: remove_separation_artifacts() processes both stems whatever happens
\* to the vocals; it reports success exactly when both sub-calls succeeded,
\* with the mean of the two dB estimates as the total reduction; otherwise it
\* reports a failure with a reason and returns both sub-results, the
\* successful one included.
C13_ArtifactsPartialResults ==
    (call.op = "remove_separation_artifacts")
        => LET vok == SubCallOk(call.vfile, call.venv)
               aok == SubCallOk(call.afile, call.aenv)
           IN /\ result.success = (vok /\ aok)
              /\ result.success
                    => /\ result.vocals_cleaned.success = TRUE
                       /\ result.accompaniment_cleaned.success = TRUE
                       /\ 2 * result.total_noise_reduction.num =
                              (call.venv.db + call.aenv.db)
                                  * result.total_noise_reduction.den
              /\ ~result.success
                    => /\ Has(result, "error")
                       /\ Has(result, "vocals_result")
                       /\ Has(result, "accompaniment_result")
                       /\ result.vocals_result.success = vok
                       /\ result.accompaniment_result.success = aok
              /\ aok => \E i \in 1..Len(written) :
                            written[i].file = "song_accompaniment_cleaned.wav"
              /\ vok => \E i \in 1..Len(written) :
                            written[i].file = "song_vocals_cleaned.wav"

C13_Witness ==
    /\ call.op = "remove_separation_artifacts"
    /\ ~call.vfile.readable
    /\ SubCallOk(call.afile, call.aenv)
    /\ result.success = FALSE
    /\ result.vocals_result.success = FALSE
    /\ result.accompaniment_result.success = TRUE
    /\ result.accompaniment_result.noise_reduction_db = 6
    /\ Len(written) = 1
    /\ written[1].file = "song_accompaniment_cleaned.wav"

\* C14: in the enhanced mode with the model loaded, when the file loads, the
\* model answers and the stems are written, separate() returns success with
\* both stems of the model for every set of failing enhancement stages.
C14_EnhancementIsBestEffort ==
    (/\ IsSeparate /\ call.mode = "enhanced" /\ model_loaded
     /\ call.file.readable /\ call.env.model_ok /\ call.env.write_fail = 0)
        => /\ result.success = TRUE
           /\ result.method = "spleeter_enhanced"
           /\ Len(written) = 2
           /\ written[1].data.ops[1] = "model_vocals"
           /\ written[2].data.ops[1] = "model_accompaniment"

C14_Witness ==
    /\ IsSeparate /\ call.mode = "enhanced" /\ model_loaded
    /\ call.file.frames = MaxFrames
    /\ call.env.failed = Stages
    /\ call.env.model_ok /\ call.env.write_fail = 0
    /\ result.success = TRUE
    /\ written[1].data.ops = <<"model_vocals">>
    /\ written[2].data.ops = <<"model_accompaniment">>

\* C19: the automatic classification returns hum when the share of the low
\* band in the total power exceeds 0.4 (whatever the high band), hiss when
\* the low share is at most 0.4 and the high share exceeds 0.4, and white
\* otherwise, also when the total power is zero or the analysis raises; it
\* returns no other class, leaves the buffer as it was, and classifying the
\* same buffer twice gives the same class.
C19_ClassificationByBandShares ==
    (buffer.kind = "bands")
        => \A i \in 1..Len(analysis) :
             LET total == buffer.low + buffer.mid + buffer.high
                 low_high == buffer.ok /\ total > 0 /\ 5 * buffer.low > 2 * total
                 high_high == buffer.ok /\ total > 0 /\ 5 * buffer.high > 2 * total
             IN /\ analysis[i].class \in NoiseClasses
                /\ low_high => analysis[i].class = "hum"
                /\ (~low_high /\ high_high) => analysis[i].class = "hiss"
                /\ (~low_high /\ ~high_high) => analysis[i].class = "white"
                /\ analysis[i].seen = <<buffer.low, buffer.mid, buffer.high>>
                /\ analysis[i].class = analysis[1].class

C19_Witness ==
    /\ buffer.kind = "bands" /\ Len(analysis) = 2
    /\ buffer.ok
    /\ buffer.low = 3 /\ buffer.mid = 1 /\ buffer.high = 3
    /\ analysis[1].class = "hum"
    /\ analysis[2].class = "hum"

\* C18 (as claimed): a denoise or enhancement stage that fails returns
\* exactly the value it was given, samples and channel layout: the mono
\* stage and the stereo stage of remove_noise return the loaded waveform,
\* a failed channel of the stereo stage stays as it was, the enhanced
\* separation with every stage failing returns the stems of the model, and
\* a noise reduction whose gate fails leaves no filtered signal behind.
C18_FailedStageReturnsItsInput ==
    /\ (call.op = "remove_noise" /\ call.file.readable /\ call.env.write_ok
         /\ call.file.frames > 0 /\ call.strength \in 0..10)
          => LET y == Load(call.file, NoRate).y
                 out == written[1].data
             IN /\ (call.file.channels = 1 /\ "left" \in call.env.fail) => out = y
                /\ (call.file.channels = 2 /\ "stereo" \in call.env.fail) => out = y
                /\ (call.file.channels = 2 /\ call.env.fail = {"left"})
                       => out.chans[1] = <<>>
    /\ (IsSeparate /\ path = "enhanced" /\ result.success = TRUE
         /\ call.env.failed = Stages)
          => /\ written[1].data.ops = <<"model_vocals">>
             /\ written[2].data.ops = <<"model_accompaniment">>
    /\ (IsSeparate /\ path = "enhanced" /\ result.success = TRUE
         /\ "noise_gate" \in call.env.failed)
          => \A k \in 1..Len(written) :
                 \A i \in 1..Len(written[k].data.ops) :
                     written[k].data.ops[i] # "highpass"

\* C20 (as claimed): in a remove_noise call with the noise type auto on a
\* stereo input, with no stage failing, both channels are cleaned by the
\* same remediation chain.
C20_OneNoiseClassPerCall ==
    (/\ call.op = "remove_noise" /\ call.noise_type = "auto"
     /\ call.file.readable /\ call.file.channels = 2
     /\ call.file.frames > 0 /\ call.strength \in 0..10
     /\ call.env.write_ok /\ call.env.fail = {})
        => written[1].data.chans[1] = written[1].data.chans[2]

\* the calls of r and q overlapped: one began while the other was in flight
Overlapped(r, q) == q \in requests[r].overlaps \/ r \in requests[q].overlaps

\* C15 (as claimed): no call overwrites the output that an overlapping call
\* on a different input reports: every file a returned successful request
\* names in its result holds what that request wrote, unless a request that
\* did not overlap it, or one on the same input, has written it since.
C15_NoOverwriteBetweenOverlappingCalls ==
    \A r \in DOMAIN requests :
        (requests[r].pc = "done" /\ requests[r].success)
            => \A e \in disk :
                 (e.file \in requests[r].reported /\ e.by # r)
                     => ~(Overlapped(r, e.by) /\ e.from # requests[r].input)

\* C16 (as claimed): at most one call of the model's separate function is
\* in progress at any time.
C16_ModelCallsSerialized ==
    Cardinality({r \in DOMAIN requests : requests[r].pc = "in_model"}) <= 1

\* the side of the output is the side of the input times (100 - pct) / 100,
\* and the mid is the mid of the input
SideScaled(a, pct) ==
    \A i \in 1..Len(wav.left) :
        /\ FracIs(FracAdd(a.left[i], a.right[i]), wav.left[i] + wav.right[i])
        /\ FracEq(FracSub(a.left[i], a.right[i]),
                  Frac((wav.left[i] - wav.right[i]) * (100 - pct), 100))

\* the output equals the input
SamplesKept(a) ==
    /\ Len(a.left) = Len(wav.left)
    /\ \A i \in 1..Len(a.left) : FracIs(a.left[i], wav.left[i])
    /\ a.channels = 2 =>
          /\ Len(a.right) = Len(wav.right)
          /\ \A i \in 1..Len(a.right) : FracIs(a.right[i], wav.right[i])

\* C21 as stated: on a stereo buffer whose channels correlate above 0.5 the
\* pass keeps the mid and multiplies the side by (1 - strength), strength
\* being the strength of the caller; otherwise, and on a mono buffer, the
\* output equals the input.  The correlation is the one np.corrcoef
\* computes: channels that correlate at exactly 1/2 fall on either side.
C21_SideShrunkByCallerStrength ==
    \A k \in 1..Len(analysis) :
        LET a == analysis[k] IN
        IF a.channels = 2 /\ CorrelationAboveHalf(wav.left, wav.right, FALSE)
        THEN SideScaled(a, 10 * a.strength)
        ELSE IF a.channels = 2 /\ CorrelationAboveHalf(wav.left, wav.right, TRUE)
        THEN SideScaled(a, 10 * a.strength) \/ (~a.applied /\ SamplesKept(a))
        ELSE ~a.applied /\ SamplesKept(a)

\* C21 amended: the side is multiplied by (1 - 0.3 * strength).
C21_SideShrunkByThreeTenths ==
    \A k \in 1..Len(analysis) :
        LET a == analysis[k] IN
        IF a.channels = 2 /\ CorrelationAboveHalf(wav.left, wav.right, FALSE)
        THEN a.applied /\ SideScaled(a, 3 * a.strength)
        ELSE IF a.channels = 2 /\ CorrelationAboveHalf(wav.left, wav.right, TRUE)
        THEN (a.applied /\ SideScaled(a, 3 * a.strength))
             \/ (~a.applied /\ SamplesKept(a))
        ELSE ~a.applied /\ SamplesKept(a)

C21_Witness ==
    /\ wav.left = <<0, 1>>
    /\ wav.right = <<0 - 1, 1>>
    /\ Len(analysis) = 1
    /\ analysis[1].channels = 2
    /\ analysis[1].strength = 10
    /\ analysis[1].applied
    /\ FracEq(analysis[1].left[1], Frac(0 - 15, 100))
    /\ FracEq(analysis[1].right[1], Frac(0 - 85, 100))

\* the steps a written buffer went through, those of its channels included
StepsOf(a) ==
    {a.ops[i] : i \in 1..Len(a.ops)}
    \cup UNION {{a.chans[c][i] : i \in 1..Len(a.chans[c])} : c \in 1..Len(a.chans)}

\* C22 (as claimed): every IIR filter that a successful remove_noise call
\* has run its signal through was applied as a forward-backward pass.
C22_EveryFilterZeroPhase ==
    (/\ call.op = "remove_noise"
     /\ call.file.readable /\ call.file.frames > 0
     /\ call.noise_type \in NoiseTypes /\ call.strength \in 0..10
     /\ call.env.write_ok)
        => \A step \in StepsOf(written[1].data),
              welch_cutoff \in WelchCutoffs(written[1].sr, call.strength) :
               \A f \in IirPasses(step, written[1].sr, call.strength,
                                   call.file.frames, welch_cutoff) :
                   f.apply = "filtfilt"

\* the position of a step among the steps of a buffer, 0 when it is absent
StepIndex(ops, step) ==
    IF \E i \in 1..Len(ops) : ops[i] = step
    THEN CHOOSE i \in 1..Len(ops) : ops[i] = step
    ELSE 0

\* the frequency shaping steps of the two chains
ShapingSteps ==
    {"vocal_boost"} \cup {SuppressionBands[i] : i \in 1..Len(SuppressionBands)}

\* C23 (as claimed): in each stem of an enhanced separation, the noise gating
\* step has run before the frequency shaping step of the chain.
C23_GatingBeforeShaping ==
    (IsSeparate /\ path = "enhanced")
        => \A k \in 1..Len(written) : \A step \in ShapingSteps :
               LET ops == written[k].data.ops IN
               (StepIndex(ops, step) > 0 /\ StepIndex(ops, "noise_reduction") > 0)
                   => StepIndex(ops, "noise_reduction") < StepIndex(ops, step)

\* C23 amended: the noise gating step runs after the frequency shaping step
\* of its chain, as the last step of the chain.
C23_GatingAfterShaping ==
    (IsSeparate /\ path = "enhanced")
        => \A k \in 1..Len(written) :
               LET ops == written[k].data.ops IN
               StepIndex(ops, "noise_reduction") > 0
                   => /\ StepIndex(ops, "noise_reduction") = Len(ops)
                      /\ \A step \in ShapingSteps :
                             StepIndex(ops, step) < StepIndex(ops, "noise_reduction")

C23_Witness ==
    /\ IsSeparate
    /\ path = "enhanced"
    /\ Len(written) = 2
    /\ written[1].data.ops = <<"model_vocals", "spectral_subtraction", "vocal_boost",
                                "dynamics", "noise_reduction">>
    /\ written[2].data.ops = <<"model_accompaniment", "spectral_subtraction",
                                "band_100_240", "band_500_800", "band_1200_1600",
                                "noise_reduction">>

\* C24 (as claimed): in every bin, the power that the spectral subtraction
\* of the enhancer puts out after its smoothing step is at least 0.3 of the
\* power of the target in that bin.
C24_FloorAfterSmoothing ==
    (buffer.kind = "spectrum" /\ Len(analysis) = 1)
        => \A k \in 1..Len(buffer.target_power) :
               analysis[1].smoothed[k]
                   >= 3 * WindowSize(Len(buffer.target_power))
                        * buffer.target_power[k] * WeightScale

\* C24 amended: the floor of 0.3 holds in every bin before the smoothing
\* step; after it the power of the bin is at least 0.3 times the centre
\* weight of the smoothing kernel (0.78) of the power of the target.
C24_FloorBeforeSmoothing ==
    (buffer.kind = "spectrum" /\ Len(analysis) = 1)
        => \A k \in 1..Len(buffer.target_power) :
               /\ analysis[1].floored[k]
                      >= 3 * WindowSize(Len(buffer.target_power))
                           * buffer.target_power[k]
               /\ analysis[1].smoothed[k]
                      >= 3 * WindowSize(Len(buffer.target_power))
                           * buffer.target_power[k] * GaussianWeight(0)

C24_Witness ==
    /\ buffer.kind = "spectrum"
    /\ buffer.target_power = <<0, 3, 0>>
    /\ buffer.noise_power = <<3, 3, 3>>
    /\ buffer.alpha = 8
    /\ Len(analysis) = 1
    /\ analysis[1].floored = <<0, 27, 0>>
    /\ analysis[1].smoothed[2] = 27 * GaussianWeight(0)
    /\ analysis[1].smoothed[2] < 27 * WeightScale

\* C25 (as claimed): each of the two edge segments from which white-noise
\* removal estimates the noise spans at most about 0.5 seconds of the audio
\* (half a second and one stft window), whatever the length and the rate.
C25_EdgeSegmentAtMostHalfSecond ==
    (buffer.kind = "signal" /\ Len(analysis) = 1)
        => analysis[1].span <= buffer.sr \div 2 + Nperseg

\* the lines read so far that are not blank
NonBlank == SelectSeq(stdin.lines, LAMBDA l : l.kind # "blank")

\* C26 (as claimed): every non-blank line read has been answered by exactly
\* one response, in order, with the id of the request (null for a line that
\* is not a JSON request); an unknown command is answered with success
\* false and an error; no line has stopped the loop.
C26_OneResponsePerLine ==
    loop # "none"
        => /\ loop = "reading"
           /\ Len(stdout) = Len(NonBlank)
           /\ \A k \in 1..Len(stdout) :
                /\ k <= Len(NonBlank)
                /\ stdout[k].id = NonBlank[k].id
                /\ (NonBlank[k].kind # "request" => ~stdout[k].result.success)
                /\ (NonBlank[k].kind = "request"
                      /\ NonBlank[k].command \notin IpcMethods)
                       => (~stdout[k].result.success /\ Has(stdout[k].result, "error"))

\* C27 (as claimed): once standard input is closed, the loop of main()
\* eventually reaches its exit.
C27_EofTerminates == (loop = "reading" /\ stdin.closed) ~> (loop = "exited")

\* C28 (as claimed): the response to a separate_audio request whose
\* separation succeeded reports success with the vocals path and the
\* accompaniment path of the separator's result, neither being null.
C28_SeparateAudioReportsBothStems ==
    (/\ loop = "reading" /\ Len(stdin.lines) > 0
     /\ stdin.lines[Len(stdin.lines)].kind = "request"
     /\ stdin.lines[Len(stdin.lines)].command = "separate_audio"
     /\ stdin.lines[Len(stdin.lines)].has_audio
     /\ result.success = TRUE)
        => LET response == stdout[Len(stdout)].result IN
           /\ response.success
           /\ response.vocals_path # "None"
           /\ response.vocals_path = result.vocals_path
           /\ response.instrumental_path # "None"
           /\ response.instrumental_path = result.accompaniment_path

\* C29 (as claimed): in an enhanced separation the waveform is loaded at
\* 44100 with the high-quality model and at 16000 with the standard model,
\* and every frequency-dependent step that ran on a stem was designed for
\* that rate.
C29_StepsDesignedForLoadedRate ==
    (IsSeparate /\ path = "enhanced" /\ result.success = TRUE
     /\ call.file.frames > 0)
        => \A k \in 1..Len(written) :
               /\ written[k].sr = IF separator_hq THEN HqModelRate ELSE StdModelRate
               /\ \A step \in StepsOf(written[k].data) \cap FrequencySteps :
                      StepDesignRate(step, written[k].sr) = written[k].sr

\* the sessions that calls in flight have created for themselves
TemporarySessions ==
    {recog.calls[k].temp : k \in {j \in 1..Len(recog.calls) :
                                      recog.calls[j].pc = "awaiting"}} \ {0}

\* C30: a returned call of transcribe or of
\* extract_vocals_and_transcribe_with_session has removed the session it
\* created and no other, so that the sessions are those from before the
\* call whenever no other call changed them meanwhile; every active session
\* was created by a caller or belongs to a call in flight; cleanup_session
\* of an unknown id returns false and changes nothing.
C30_SessionsDoNotLeak ==
    /\ sessions \subseteq recog.client \cup TemporarySessions
    /\ \A k \in 1..Len(recog.calls) :
         LET c == recog.calls[k] IN
         c.pc = "done"
             => /\ c.after = c.seen \ {c.temp}
                /\ c.temp \notin c.before
                /\ (c.seen \ {c.temp} = c.before => c.after = c.before)
    /\ (recog.last.session_id # 0 /\ recog.last.session_id \notin recog.last.before)
           => (~recog.last.ret /\ recog.last.after = recog.last.before)

C30_Witness ==
    /\ recog.whisper
    /\ recog.last.session_id # 0
    /\ recog.last.session_id \notin recog.last.before
    /\ \E k \in 1..Len(recog.calls) :
         /\ recog.calls[k].op = "extract"
         /\ recog.calls[k].pc = "done"
         /\ recog.calls[k].temp # 0
         /\ recog.calls[k].arg = 1
         /\ recog.calls[k].before = {1}
         /\ recog.calls[k].after = {1}
    /\ sessions = {1}

====
